---- MODULE Spec2Model ----
(***************************************************************************)
(* Boss spawn notifier: the spawn-time resolver, the notification gate,    *)
(* the dedup ledger and the poll loop of the two programs of the           *)
(* repository, boss_notifier_app.py (the "worker" variant) and app.py (the *)
(* "app" variant).                                                         *)
(*                                                                         *)
(* Instants are naive local datetimes, counted in whole seconds from a     *)
(* Monday 00:00:00.  A timedelta is a number of seconds.                   *)
(***************************************************************************)
EXTENDS Integers, Sequences, FiniteSets, TLC

\* ------------------------------------------------------------------------
\* datetime arithmetic
\* ------------------------------------------------------------------------

\* timedelta(days=1), in seconds
SecondsPerDay == 86400

\* timedelta(weeks=1)
SecondsPerWeek == 7 * SecondsPerDay

\* timedelta(minutes=m)
Minutes(m) == m * 60

\* datetime.weekday(): Monday is 0, Sunday is 6
Weekday(t) == (t \div SecondsPerDay) % 7

\* datetime.date(): the day number
DateOf(t) == t \div SecondsPerDay

\* datetime.replace(hour=h, minute=m, second=0, microsecond=0)
ReplaceTime(t, h, m) == DateOf(t) * SecondsPerDay + h * 3600 + m * 60

\* ------------------------------------------------------------------------
\* boss_notifier_app.py: get_next_spawn_time
\* ------------------------------------------------------------------------

\* Python's None, for a day name DAY_MAPPING does not hold and for "no spawn"
None == -1

DAY_MAPPING ==
    [d \in {"Monday", "Tuesday", "Wednesday", "Thursday", "Friday",
            "Saturday", "Sunday"} |->
        CASE d = "Monday" -> 0
          [] d = "Tuesday" -> 1
          [] d = "Wednesday" -> 2
          [] d = "Thursday" -> 3
          [] d = "Friday" -> 4
          [] d = "Saturday" -> 5
          [] d = "Sunday" -> 6]

\* DAY_MAPPING.get(day)
DayLookup(day) == IF day \in DOMAIN DAY_MAPPING THEN DAY_MAPPING[day] ELSE None

\* map(int, spawn['time'].split(':')) on the 'HH:MM' strings of the data
SplitTime(s) ==
    CASE s = "00:00" -> <<0, 0>>
      [] s = "00:10" -> <<0, 10>>
      [] s = "00:20" -> <<0, 20>>
      [] s = "00:30" -> <<0, 30>>
      [] s = "08:00" -> <<8, 0>>
      [] s = "14:00" -> <<14, 0>>
      [] s = "23:59" -> <<23, 59>>

\* The candidate of one rule whose day is recognised: `<' for `<=' (mutant)
SpawnCandidate_StrictCompare(spawn, current_time) ==
    LET day_of_week_int == DayLookup(spawn.day)
        hm == SplitTime(spawn.time)
        days_diff == (day_of_week_int - Weekday(current_time) + 7) % 7
        cand == ReplaceTime(current_time + days_diff * SecondsPerDay, hm[1], hm[2])
    IN  IF cand < current_time THEN cand + SecondsPerWeek ELSE cand

\* The candidate of one rule: a day added for a week (mutant)
SpawnCandidate_AddsDay(spawn, current_time) ==
    LET day_of_week_int == DayLookup(spawn.day)
        hm == SplitTime(spawn.time)
        days_diff == (day_of_week_int - Weekday(current_time) + 7) % 7
        cand == ReplaceTime(current_time + days_diff * SecondsPerDay, hm[1], hm[2])
    IN  IF cand <= current_time THEN cand + SecondsPerDay ELSE cand

\* The candidate of one rule: the weekday difference taken the wrong way (mutant)
SpawnCandidate_SwappedDiff(spawn, current_time) ==
    LET day_of_week_int == DayLookup(spawn.day)
        hm == SplitTime(spawn.time)
        days_diff == (Weekday(current_time) - day_of_week_int + 7) % 7
        cand == ReplaceTime(current_time + days_diff * SecondsPerDay, hm[1], hm[2])
    IN  IF cand <= current_time THEN cand + SecondsPerWeek ELSE cand

\* The loop body for one rule whose day is recognised (lines 91-99)
SpawnCandidate(spawn, current_time) ==
    LET day_of_week_int == DayLookup(spawn.day)
        hm == SplitTime(spawn.time)
        days_diff == (day_of_week_int - Weekday(current_time) + 7) % 7
        cand == ReplaceTime(current_time + days_diff * SecondsPerDay, hm[1], hm[2])
    IN  IF cand <= current_time THEN cand + SecondsPerWeek ELSE cand

\* for spawn in spawn_times: ... (lines 86-102), from rule i on
RECURSIVE NextSpawnLoop(_, _, _, _)
NextSpawnLoop(spawn_times, i, current_time, next_spawn) ==
    IF i > Len(spawn_times) THEN next_spawn
    ELSE IF DayLookup(spawn_times[i].day) = None
         THEN NextSpawnLoop(spawn_times, i + 1, current_time, next_spawn)
         ELSE LET c == SpawnCandidate(spawn_times[i], current_time)
              IN  NextSpawnLoop(spawn_times, i + 1, current_time,
                                IF next_spawn = None \/ c < next_spawn
                                THEN c ELSE next_spawn)

\* The loop keeps the last recognised rule's candidate (mutant)
RECURSIVE LastRuleLoop(_, _, _, _)
LastRuleLoop(spawn_times, i, current_time, next_spawn) ==
    IF i > Len(spawn_times) THEN next_spawn
    ELSE IF DayLookup(spawn_times[i].day) = None
         THEN LastRuleLoop(spawn_times, i + 1, current_time, next_spawn)
         ELSE LastRuleLoop(spawn_times, i + 1, current_time,
                           SpawnCandidate(spawn_times[i], current_time))

get_next_spawn_time_LastRule(boss_name, spawn_times, current_time) ==
    LastRuleLoop(spawn_times, 1, current_time, None)

get_next_spawn_time(boss_name, spawn_times, current_time) ==
    NextSpawnLoop(spawn_times, 1, current_time, None)

\* ------------------------------------------------------------------------
\* State
\* ------------------------------------------------------------------------

VARIABLES
    variant,          \* which program runs: "worker", "app", or "resolver"
    now,              \* the wall clock, datetime.now()
    rs_spawn_times,   \* resolver call: the spawn_times argument
    rs_current_time,  \* resolver call: the current_time argument
    rs_result,        \* resolver call: the value returned
    rs_pc,            \* resolver call: "call" before, "done" after
    w_pc,                     \* NotificationWorker.run: "status" (line 126) or "notify" (line 183)
    current_time,             \* NotificationWorker.run: current_time of the tick under way
    selected_boss_ids,        \* NotificationWorker.run: the list read at line 133
    boss_checked,             \* selected_bosses_checkboxes: ids whose box is checked
    minute_checked,           \* selected_notification_minutes_checkboxes: minutes checked
    w_is_active,              \* NotificationWorker._is_active
    notified_spawn_times,     \* NotificationWorker.notified_spawn_times
    live_info_label,          \* BossNotifierApp.live_info_label
    active_button_enabled,    \* active_button.isEnabled()
    deactive_button_enabled,  \* deactive_button.isEnabled()
    a_pc,                     \* check_for_notifications: "poll" (before line 345) or "gate" (line 373)
    tick_now,                 \* check_for_notifications: now (line 348)
    filtered_df,              \* check_for_notifications: the rows kept at line 368
    is_running,               \* BossNotificationApp.is_running
    active_bosses,            \* BossNotificationApp.active_bosses
    notification_settings,    \* BossNotificationApp.notification_settings
    notifications_sent_today, \* BossNotificationApp.notifications_sent_today
    last_reset_date,          \* BossNotificationApp._last_reset_date
    thread_started,           \* scheduler_thread.isRunning()
    is_paused,                \* SchedulerThread._is_paused
    status_label,             \* ui.status_label
    start_btn_enabled,        \* ui.start_btn.isEnabled()
    stop_btn_enabled,         \* ui.stop_btn.isEnabled()
    sent,             \* history: notification triple -> number of notifications emitted
    win,              \* history: triple -> how its arming window was polled so far
    clicks,           \* history: number of user actions so far
    snap,             \* history: the selections that held together during the tick under way
    data_file,        \* what boss_data.json holds: "good", "missing", or a malformed rule
    main_pc,          \* the main thread: "ctor", "show", "exec", "events", "wait", "exited", "aborted"
    window_shown,     \* the main window was shown
    exit_code,        \* the exit code of the process, None while it runs
    stop_event,       \* SchedulerThread._stop_event
    failed            \* history: the triples whose notification the sink failed to deliver

resolverVars == <<rs_spawn_times, rs_current_time, rs_result, rs_pc>>

workerVars == <<w_pc, current_time, selected_boss_ids, boss_checked, minute_checked,
                w_is_active, notified_spawn_times, live_info_label,
                active_button_enabled, deactive_button_enabled>>

appVars == <<a_pc, tick_now, filtered_df, is_running, active_bosses, notification_settings,
             notifications_sent_today, last_reset_date, thread_started, is_paused,
             status_label, start_btn_enabled, stop_btn_enabled>>

historyVars == <<sent, win, clicks, snap>>

lifeVars == <<data_file, main_pc, window_shown, exit_code, stop_event, failed>>

vars == <<variant, now, resolverVars, workerVars, appVars, historyVars, lifeVars>>

\* The process has neither exited nor been aborted
ProcessAlive == main_pc \notin {"exited", "aborted"}

\* The main thread is in app.exec_() and handles the user's clicks
EventLoopRuns == main_pc = "events"

\* ------------------------------------------------------------------------
\* Bounds of the runs
\* ------------------------------------------------------------------------

\* The longest spawn_times list the resolver is tried on
MaxRules == 2

\* User actions (clicks on checkboxes and buttons) in one run
MaxClicks == 3

\* Length of a run of the worker, in sleeps of the poll loop
WorkerHorizonTicks == 124

\* A stalled loop (the machine suspended, the thread starved) oversleeps by
\* this many poll intervals
StallTicks == 5

\* The thresholds the user of the runs ticks and unticks
UserMinutes == {5, 15}

\* The bosses whose checkbox the user of the runs ticks and unticks
UserBosses == {1, 2}

\* ------------------------------------------------------------------------
\* History: what was emitted, and how each arming window was polled
\* ------------------------------------------------------------------------

\* No tick is under way: nothing was read yet
NoSnap == [events |-> {}, seen |-> {}]

\* The selections seen together after a change made while a tick is under
\* way: the thresholds join seen when the events are those the tick has read
SnapAfter(underway, events_now, thresholds_now) ==
    IF underway /\ events_now = snap.events
    THEN [snap EXCEPT !.seen = @ \cup {thresholds_now}]
    ELSE snap

\* A notification triple is <<event, occurrence instant, threshold minutes>>
WindowStart(k) == k[2] - Minutes(k[3])

\* The instants of a rule in three weeks from the week of t
RuleInstants(spawn, t) ==
    IF spawn.day \in DOMAIN DAY_MAPPING
    THEN {(DateOf(t) - Weekday(t) + DAY_MAPPING[spawn.day]) * SecondsPerDay
            + SplitTime(spawn.time)[1] * 3600 + SplitTime(spawn.time)[2] * 60
            + w * SecondsPerWeek : w \in 0..2}
    ELSE {}

RECURSIVE CountAll(_, _, _)
CountAll(count, out, i) ==
    IF i > Len(out) THEN count
    ELSE CountAll(IF out[i] \in DOMAIN count
                  THEN [count EXCEPT ![out[i]] = @ + 1]
                  ELSE count @@ (out[i] :> 1),
                  out, i + 1)

\* win after a tick at instant t that evaluated the gates of the
\* <<event, minutes>> pairs in evaluated and then slept for slept seconds;
\* triples are all triples of the data, width the window's, period the poll
\* interval.  win holds a triple from the first poll slot of its arming window
\* to the first tick after the window: "full" while every poll slot of the
\* window so far had a tick that evaluated the triple, "partial" when some slot
\* had none (the gate was not evaluated, or the loop overslept the slot).
WinAfter(w, triples, evaluated, t, slept, width, period) ==
    LET inWin(k, x) == WindowStart(k) <= x /\ x < WindowStart(k) + width
        open == {k \in triples : inWin(k, t)}
        was(k) == IF k \in DOMAIN w THEN w[k]
                  ELSE IF t - WindowStart(k) < period THEN "full" ELSE "partial"
    IN  [k \in open |->
            IF /\ was(k) = "full"
               /\ <<k[1], k[3]>> \in evaluated
               /\ ~(slept > period /\ inWin(k, t + period))
            THEN "full" ELSE "partial"]

\* ------------------------------------------------------------------------
\* boss_notifier_app.py: the data, the worker thread and the main window
\* ------------------------------------------------------------------------

\* boss_data, the content of boss_data.json: two bosses that spawn together,
\* one of them again ten minutes later, and one whose only rule has a day name
\* DAY_MAPPING does not hold
BOSS_DATA ==
    << [id |-> 1, name |-> "Kzarka",
        spawn_times |-> << [day |-> "Monday", time |-> "00:10"],
                           [day |-> "Monday", time |-> "00:20"] >>],
       [id |-> 2, name |-> "Vell",
        spawn_times |-> << [day |-> "Monday", time |-> "00:10"] >>],
       [id |-> 3, name |-> "Offin",
        spawn_times |-> << [day |-> "monday", time |-> "00:10"] >>] >>

BossIds == {BOSS_DATA[i].id : i \in 1..Len(BOSS_DATA)}

\* The contents of boss_data.json that load_boss_data accepts and that hold
\* one boss with a malformed rule: a time that is no 'HH:MM', no day, no time
BadRuleFiles == {"bad_time", "no_day", "no_time"}

\* The contents for which load_boss_data returns None: no file, or no JSON
UnloadableFiles == {"missing", "invalid_json"}

\* The boss with the malformed rule
MalformedBoss(file) ==
    [id |-> 4, name |-> "Karanda",
     spawn_times |->
        CASE file = "bad_time" -> << [day |-> "Monday", time |-> "7pm"] >>
          [] file = "no_day" -> << [time |-> "00:10"] >>
          [] file = "no_time" -> << [day |-> "Monday"] >>]

\* self.boss_data for the file: the bosses of BOSS_DATA, and the malformed
\* boss after them
FileBossData(file) ==
    IF file \in BadRuleFiles THEN Append(BOSS_DATA, MalformedBoss(file)) ELSE BOSS_DATA

\* The 'HH:MM' strings map(int, ...split(':')) turns into two integers
ParsableTimes == {"00:00", "00:10", "00:20", "00:30", "08:00", "14:00", "23:59"}

\* Lines 87-91 for one rule: spawn['day'] raises KeyError when the field is
\* missing; for a recognised day spawn['time'] raises KeyError, and the
\* unpacking of map(int, ...) raises ValueError when the string is no 'HH:MM'
RuleRaises(spawn) ==
    IF "day" \notin DOMAIN spawn THEN TRUE
    ELSE IF DayLookup(spawn.day) = None THEN FALSE
    ELSE IF "time" \notin DOMAIN spawn THEN TRUE
    ELSE spawn.time \notin ParsableTimes

\* get_next_spawn_time raises: the loop of lines 86-102 has no try
NextSpawnRaises(spawn_times) ==
    \E i \in 1..Len(spawn_times) : RuleRaises(spawn_times[i])

notification_minutes_options == <<1, 3, 5, 10, 15, 30>>

\* time.sleep(15)
WORKER_SLEEP == 15

\* timedelta(minutes=1, seconds=5), the width of the arming window
WORKER_WINDOW == 65

\* timedelta(minutes=15), how long a key outlives its spawn time
WORKER_RETENTION_MINUTES == 15

\* The run starts on Sunday 23:54:30 or 23:54:35, before the first window
WorkerStartTimes == {6 * SecondsPerDay + 23 * 3600 + 54 * 60 + 30 + p : p \in {0, 5}}

WorkerEndTime == 6 * SecondsPerDay + 23 * 3600 + 54 * 60 + 30
                    + WorkerHorizonTicks * WORKER_SLEEP

\* get_selected_boss_ids()
get_selected_boss_ids == boss_checked

\* get_selected_notification_minutes(): the checked minutes, in the order of
\* the checkboxes
get_selected_notification_minutes ==
    SelectSeq(notification_minutes_options, LAMBDA m : m \in minute_checked)

\* The gate without its upper end: any time within the threshold (mutant)
WorkerDue_NoUpperEnd(notification_threshold, time_until_spawn) ==
    notification_threshold >= time_until_spawn

\* The gate with the window open at its start (mutant)
WorkerDue_OpenStart(notification_threshold, time_until_spawn) ==
    /\ notification_threshold > time_until_spawn
    /\ time_until_spawn > notification_threshold - WORKER_WINDOW

\* The gate with a window of five minutes and five seconds (mutant)
WorkerDue_FiveMinutes(notification_threshold, time_until_spawn) ==
    /\ notification_threshold >= time_until_spawn
    /\ time_until_spawn > notification_threshold - WORKER_WINDOW - Minutes(4)

\* notification_threshold >= time_until_spawn > notification_threshold - 1:05
WorkerDue(notification_threshold, time_until_spawn) ==
    /\ notification_threshold >= time_until_spawn
    /\ time_until_spawn > notification_threshold - WORKER_WINDOW

\* The ledger key without the threshold (mutant)
WorkerKey_NoThreshold(boss_id, next_spawn, minutes_before) == <<boss_id, next_spawn, 0>>

\* The ledger key without the spawn time (mutant)
WorkerKey_NoSpawn(boss_id, next_spawn, minutes_before) == <<boss_id, 0, minutes_before>>

\* notification_key = (boss_id, next_spawn, minutes_before)
WorkerKey(boss_id, next_spawn, minutes_before) == <<boss_id, next_spawn, minutes_before>>

\* The notification is sent and its key is not kept (mutant)
WorkerRecord_Skips(ledger, notification_key) == ledger

\* self.notified_spawn_times.add(notification_key)
WorkerRecord(ledger, notification_key) == ledger \cup {notification_key}

\* for minutes_before in selected_minutes: ... (lines 200-219), from minute j
\* on; st is [ledger: notified_spawn_times, out: the signals emitted so far]
RECURSIVE WorkerMinutesLoop(_, _, _, _, _, _)
WorkerMinutesLoop(boss, next_spawn, tick_time, selected_minutes, j, st) ==
    IF j > Len(selected_minutes) THEN st
    ELSE LET minutes_before == selected_minutes[j]
             time_until_spawn == next_spawn - tick_time
             notification_threshold == Minutes(minutes_before)
             notification_key == WorkerKey(boss.id, next_spawn, minutes_before)
         IN  WorkerMinutesLoop(boss, next_spawn, tick_time, selected_minutes, j + 1,
                IF /\ WorkerDue(notification_threshold, time_until_spawn)
                   /\ notification_key \notin st.ledger
                THEN [ledger |-> WorkerRecord(st.ledger, notification_key),
                      out |-> Append(st.out, <<boss.id, next_spawn, minutes_before>>)]
                ELSE st)

\* for boss in self.boss_data: ... (lines 185-219), from boss i on
RECURSIVE WorkerBossLoop(_, _, _, _, _)
WorkerBossLoop(i, boss_ids, tick_time, selected_minutes, st) ==
    IF i > Len(BOSS_DATA) THEN st
    ELSE LET boss == BOSS_DATA[i]
             next_spawn == get_next_spawn_time(boss.name, boss.spawn_times, tick_time)
         IN  WorkerBossLoop(i + 1, boss_ids, tick_time, selected_minutes,
                IF boss.id \notin boss_ids \/ boss.spawn_times = <<>> \/ next_spawn = None
                THEN st
                ELSE WorkerMinutesLoop(boss, next_spawn, tick_time, selected_minutes, 1, st))

\* The next spawn of each boss the notify loop evaluates: <<id, next_spawn>>
WorkerResolved(boss_ids, tick_time) ==
    {<<BOSS_DATA[i].id,
       get_next_spawn_time(BOSS_DATA[i].name, BOSS_DATA[i].spawn_times, tick_time)>> :
        i \in {j \in 1..Len(BOSS_DATA) :
                 /\ BOSS_DATA[j].id \in boss_ids
                 /\ BOSS_DATA[j].spawn_times # <<>>
                 /\ get_next_spawn_time(BOSS_DATA[j].name, BOSS_DATA[j].spawn_times,
                                        tick_time) # None}}

\* The comparison with the sign of the 15 minutes turned (mutant)
WorkerPrune_BeforeSpawn(ledger, tick_time) ==
    {k \in ledger : k[2] > tick_time + Minutes(WORKER_RETENTION_MINUTES)}

\* Nothing is ever removed from the ledger (mutant)
WorkerPrune_KeepsAll(ledger, tick_time) == ledger

\* The ledger is emptied at the end of every tick (mutant)
WorkerPrune_DropsAll(ledger, tick_time) == {}

\* Lines 222-225: keep the keys whose spawn time is later than 15 minutes ago
WorkerPrune(ledger, tick_time) ==
    {k \in ledger : k[2] > tick_time - Minutes(WORKER_RETENTION_MINUTES)}

\* The remaining time shown: <<hours, minutes>>, or "ŞİMDİ!" when none is left
RemainingStr(time_until) ==
    IF time_until <= 0 THEN <<"now">>
    ELSE <<time_until \div 3600, (time_until % 3600) \div 60>>

\* The loop without its elif branch: a boss that ties with the earliest is
\* not listed (mutant)
RECURSIVE ClosestLoop_FirstOnly(_, _, _, _, _)
ClosestLoop_FirstOnly(i, boss_ids, tick_time, overall_earliest_spawn, closest_bosses_info) ==
    IF i > Len(BOSS_DATA) THEN closest_bosses_info
    ELSE LET boss == BOSS_DATA[i]
             next_spawn_for_boss ==
                 get_next_spawn_time(boss.name, boss.spawn_times, tick_time)
         IN  IF /\ boss.id \in boss_ids
                /\ boss.spawn_times # <<>>
                /\ next_spawn_for_boss # None
                /\ \/ overall_earliest_spawn = None
                   \/ next_spawn_for_boss < overall_earliest_spawn
             THEN ClosestLoop_FirstOnly(i + 1, boss_ids, tick_time, next_spawn_for_boss,
                                        << <<boss.name, next_spawn_for_boss>> >>)
             ELSE ClosestLoop_FirstOnly(i + 1, boss_ids, tick_time,
                                        overall_earliest_spawn, closest_bosses_info)

\* Lines 135-150: the selected bosses whose next spawn is the earliest, from
\* boss i on
RECURSIVE ClosestLoop(_, _, _, _, _)
ClosestLoop(i, boss_ids, tick_time, overall_earliest_spawn, closest_bosses_info) ==
    IF i > Len(BOSS_DATA) THEN closest_bosses_info
    ELSE LET boss == BOSS_DATA[i]
             next_spawn_for_boss ==
                 get_next_spawn_time(boss.name, boss.spawn_times, tick_time)
         IN  IF \/ boss.id \notin boss_ids
                \/ boss.spawn_times = <<>>
                \/ next_spawn_for_boss = None
             THEN ClosestLoop(i + 1, boss_ids, tick_time, overall_earliest_spawn,
                              closest_bosses_info)
             ELSE IF \/ overall_earliest_spawn = None
                     \/ next_spawn_for_boss < overall_earliest_spawn
             THEN ClosestLoop(i + 1, boss_ids, tick_time, next_spawn_for_boss,
                              << <<boss.name, next_spawn_for_boss>> >>)
             ELSE IF next_spawn_for_boss = overall_earliest_spawn
             THEN ClosestLoop(i + 1, boss_ids, tick_time, overall_earliest_spawn,
                              Append(closest_bosses_info,
                                     <<boss.name, next_spawn_for_boss>>))
             ELSE ClosestLoop(i + 1, boss_ids, tick_time, overall_earliest_spawn,
                              closest_bosses_info)

\* Lines 152-178: live_info_text
LiveInfoText(boss_ids, tick_time) ==
    LET closest_bosses_info == ClosestLoop(1, boss_ids, tick_time, None, <<>>)
    IN  IF closest_bosses_info = <<>>
        THEN [kind |-> "no boss", entries |-> <<>>]
        ELSE [kind |-> "closest",
              entries |-> [n \in 1..Len(closest_bosses_info) |->
                             <<closest_bosses_info[n][1],
                               RemainingStr(closest_bosses_info[n][2] - tick_time)>>]]

\* Every triple of the data the user's thresholds can arm
WorkerTriples ==
    UNION {{<<BOSS_DATA[i].id, occ, m>> :
               occ \in UNION {RuleInstants(BOSS_DATA[i].spawn_times[r], 0) :
                                r \in 1..Len(BOSS_DATA[i].spawn_times)},
               m \in UserMinutes} : i \in 1..Len(BOSS_DATA)}

WorkerInit ==
    /\ variant = "worker"
    /\ now \in WorkerStartTimes
    /\ w_pc = "status"
    /\ current_time = None
    /\ selected_boss_ids = {}
    /\ boss_checked = BossIds
    /\ minute_checked = {}
    /\ w_is_active = FALSE
    /\ notified_spawn_times = {}
    /\ live_info_label = [kind |-> "loading", entries |-> <<>>]
    /\ active_button_enabled = TRUE
    /\ deactive_button_enabled = FALSE

\* The loop of lines 135-143 raises: a selected boss has a rule that raises
StatusRaises(boss_ids) ==
    \E i \in 1..Len(FileBossData(data_file)) :
       LET boss == FileBossData(data_file)[i]
       IN  /\ boss.id \in boss_ids
           /\ boss.spawn_times # <<>>
           /\ NextSpawnRaises(boss.spawn_times)

\* run(), lines 126-180: read the clock and the selected bosses, emit the
\* status
WorkerStatus ==
    /\ variant = "worker"
    /\ w_pc = "status"
    /\ ProcessAlive
    /\ ~StatusRaises(get_selected_boss_ids)
    /\ current_time' = now
    /\ selected_boss_ids' = get_selected_boss_ids
    /\ live_info_label' = LiveInfoText(get_selected_boss_ids, now)
    /\ w_pc' = "notify"
    /\ snap' = [events |-> get_selected_boss_ids, seen |-> {minute_checked}]
    /\ UNCHANGED <<variant, now, resolverVars, lifeVars, appVars, boss_checked, minute_checked, w_is_active,
                   notified_spawn_times, active_button_enabled,
                   deactive_button_enabled, sent, win, clicks>>

\* run(), lines 183-227: the notification loop when active, the pruning of the
\* ledger, the sleep
WorkerNotify ==
    /\ variant = "worker"
    /\ w_pc = "notify"
    /\ ProcessAlive
    /\ \E slept \in {0, WORKER_SLEEP, (1 + StallTicks) * WORKER_SLEEP} :
          LET selected_minutes == get_selected_notification_minutes
              st0 == [ledger |-> notified_spawn_times, out |-> <<>>]
              st == IF w_is_active
                    THEN WorkerBossLoop(1, selected_boss_ids, current_time,
                                        selected_minutes, st0)
                    ELSE st0
              evaluated == IF w_is_active
                           THEN {<<r[1], m>> :
                                   r \in WorkerResolved(selected_boss_ids, current_time),
                                   m \in minute_checked}
                           ELSE {}
          IN  /\ now + slept <= WorkerEndTime
              /\ notified_spawn_times' = WorkerPrune(st.ledger, current_time)
              /\ sent' = CountAll(sent, st.out, 1)
              /\ win' = WinAfter(win, WorkerTriples, evaluated, current_time, slept,
                                 WORKER_WINDOW, WORKER_SLEEP)
              /\ now' = now + slept
    /\ w_pc' = "status"
    /\ snap' = NoSnap
    /\ UNCHANGED <<variant, resolverVars, lifeVars, appVars, current_time, selected_boss_ids, boss_checked,
                   minute_checked, w_is_active, live_info_label,
                   active_button_enabled, deactive_button_enabled, clicks>>

\* The user ticks or unticks the checkbox of a boss
ToggleBossCheckbox ==
    /\ variant = "worker"
    /\ EventLoopRuns
    /\ clicks < MaxClicks
    /\ \E b \in UserBosses :
          boss_checked' = IF b \in boss_checked THEN boss_checked \ {b}
                          ELSE boss_checked \cup {b}
    /\ clicks' = clicks + 1
    /\ snap' = SnapAfter(w_pc = "notify", boss_checked', minute_checked)
    /\ UNCHANGED <<variant, now, resolverVars, lifeVars, appVars, w_pc, current_time, selected_boss_ids,
                   minute_checked, w_is_active, notified_spawn_times, live_info_label,
                   active_button_enabled, deactive_button_enabled, sent, win>>

\* The user ticks or unticks the checkbox of a threshold
ToggleMinuteCheckbox ==
    /\ variant = "worker"
    /\ EventLoopRuns
    /\ clicks < MaxClicks
    /\ \E m \in UserMinutes :
          minute_checked' = IF m \in minute_checked THEN minute_checked \ {m}
                            ELSE minute_checked \cup {m}
    /\ clicks' = clicks + 1
    /\ snap' = SnapAfter(w_pc = "notify", boss_checked, minute_checked')
    /\ UNCHANGED <<variant, now, resolverVars, lifeVars, appVars, w_pc, current_time, selected_boss_ids,
                   boss_checked, w_is_active, notified_spawn_times, live_info_label,
                   active_button_enabled, deactive_button_enabled, sent, win>>

\* activate_notifications (the Active button)
activate_notifications ==
    /\ variant = "worker"
    /\ EventLoopRuns
    /\ clicks < MaxClicks
    /\ active_button_enabled
    /\ w_is_active' = TRUE
    /\ active_button_enabled' = FALSE
    /\ deactive_button_enabled' = TRUE
    /\ clicks' = clicks + 1
    /\ UNCHANGED <<variant, now, resolverVars, lifeVars, appVars, w_pc, current_time, selected_boss_ids,
                   boss_checked, minute_checked, notified_spawn_times, live_info_label,
                   sent, win, snap>>

\* deactivate_notifications (the Deactive button)
deactivate_notifications ==
    /\ variant = "worker"
    /\ EventLoopRuns
    /\ clicks < MaxClicks
    /\ deactive_button_enabled
    /\ w_is_active' = FALSE
    /\ active_button_enabled' = TRUE
    /\ deactive_button_enabled' = FALSE
    /\ live_info_label' = [kind |-> "deactive", entries |-> <<>>]
    /\ clicks' = clicks + 1
    /\ UNCHANGED <<variant, now, resolverVars, lifeVars, appVars, w_pc, current_time, selected_boss_ids,
                   boss_checked, minute_checked, notified_spawn_times,
                   sent, win, snap>>

WorkerNext ==
    \/ WorkerStatus
    \/ WorkerNotify
    \/ ToggleBossCheckbox
    \/ ToggleMinuteCheckbox
    \/ activate_notifications
    \/ deactivate_notifications

\* ------------------------------------------------------------------------
\* app.py: the schedule, check_for_notifications, the scheduler thread and
\* the main window
\* ------------------------------------------------------------------------

NOTIFICATION_TIMES ==
    [k \in {"1_min", "3_min", "5_min", "10_min", "15_min", "30_min", "60_min"} |->
        CASE k = "1_min" -> 1
          [] k = "3_min" -> 3
          [] k = "5_min" -> 5
          [] k = "10_min" -> 10
          [] k = "15_min" -> 15
          [] k = "30_min" -> 30
          [] k = "60_min" -> 60]

WEEKDAY_MAP ==
    [d \in {"Monday", "Tuesday", "Wednesday", "Thursday", "Friday", "Saturday",
            "Sunday", "monday", "tuesday", "wednesday", "thursday", "friday",
            "saturday", "sunday"} |->
        CASE d \in {"Monday", "monday"} -> 0
          [] d \in {"Tuesday", "tuesday"} -> 1
          [] d \in {"Wednesday", "wednesday"} -> 2
          [] d \in {"Thursday", "thursday"} -> 3
          [] d \in {"Friday", "friday"} -> 4
          [] d \in {"Saturday", "saturday"} -> 5
          [] d \in {"Sunday", "sunday"} -> 6]

\* str.lower() on the day names of the schedule
Lower(d) ==
    CASE d \in {"Monday", "monday"} -> "monday"
      [] d \in {"Tuesday", "tuesday"} -> "tuesday"
      [] d \in {"Wednesday", "wednesday"} -> "wednesday"
      [] OTHER -> d

\* datetime.strptime(str(time_str).strip(), '%H:%M').time(), in seconds after
\* midnight
parse_time_str(time_str) ==
    CASE time_str = "00:05" -> 5 * 60
      [] time_str = "00:10" -> 10 * 60
      [] time_str = "00:20" -> 20 * 60
      [] time_str = "23:59" -> 23 * 3600 + 59 * 60

\* df_schedule, the rows of boss_takvimi.xlsx: a boss with two spawns on
\* Tuesday ten minutes apart, a boss that spawns five minutes after midnight
\* on Tuesday and one minute before midnight on Monday
DF_SCHEDULE ==
    << [Boss |-> "Garmoth", Gun |-> "Tuesday", Saat |-> "00:10"],
       [Boss |-> "Garmoth", Gun |-> "Tuesday", Saat |-> "00:20"],
       [Boss |-> "Vell", Gun |-> "tuesday", Saat |-> "00:05"],
       [Boss |-> "Vell", Gun |-> "Monday", Saat |-> "23:59"] >>

\* The boss names of the schedule, each with a button
BossNames == {DF_SCHEDULE[i].Boss : i \in 1..Len(DF_SCHEDULE)}

\* schedule.every(30).seconds
APP_PERIOD == 30

\* timedelta(seconds=30), the width of the arming window
APP_WINDOW == 30

\* timedelta(seconds=10): an event this long ago still counts as today's
APP_PASSED_TOLERANCE == 10

\* timedelta(days=365), the initial min_time_diff
APP_MAX_DIFF_DAYS == 365

\* Length of a run of the app, in periods of the schedule
AppHorizonTicks == 44

\* The run starts on Monday 23:53:30 or 23:53:35
AppStartTimes == {23 * 3600 + 53 * 60 + 30 + p : p \in {0, 5}}

AppEndTime == 23 * 3600 + 53 * 60 + 30 + AppHorizonTicks * APP_PERIOD

\* The thresholds the user of the runs ticks and unticks
UserMinuteKeys == {k \in DOMAIN NOTIFICATION_TIMES : NOTIFICATION_TIMES[k] \in UserMinutes}

\* What settings.txt holds at start: no file, or both bosses and both of the
\* user's thresholds saved as active
SavedSettings ==
    { [bosses |-> {}, times |-> {}],
      [bosses |-> BossNames, times |-> UserMinuteKeys] }

\* The active thresholds taken in rising order (mutant)
RECURSIVE SortedRising(_)
SortedRising(S) ==
    IF S = {} THEN <<>>
    ELSE LET m == CHOOSE x \in S : \A y \in S : x <= y
         IN  <<m>> \o SortedRising(S \ {m})

\* sorted(active_notification_times, reverse=True)
RECURSIVE SortedReverse(_)
SortedReverse(S) ==
    IF S = {} THEN <<>>
    ELSE LET m == CHOOSE x \in S : \A y \in S : y <= x
         IN  <<m>> \o SortedReverse(S \ {m})

\* notification_threshold >= time_diff > notification_threshold - 30 s
AppDue(notification_threshold, time_diff) ==
    /\ notification_threshold >= time_diff
    /\ time_diff > notification_threshold - APP_WINDOW

\* notification_key = f"{Boss}_{Gun}_{Saat}_{notify_minutes}min"
AppKey(row, notify_minutes) == <<row.Boss, row.Gun, row.Saat, notify_minutes>>

\* An event that has passed at all is moved to the next week (mutant)
AppEventDatetime_NoTolerance(row, t) ==
    LET event_datetime == DateOf(t) * SecondsPerDay + parse_time_str(row.Saat)
    IN  IF event_datetime < t
        THEN event_datetime + SecondsPerWeek
        ELSE event_datetime

\* Lines 381-386: the row's event_datetime at the tick
AppEventDatetime(row, t) ==
    LET event_datetime == DateOf(t) * SecondsPerDay + parse_time_str(row.Saat)
    IN  IF event_datetime < t - APP_PASSED_TOLERANCE
        THEN event_datetime + SecondsPerWeek
        ELSE event_datetime

\* self.notifications_sent_today[notification_key] = True
AppRecord(ledger, notification_key) == ledger \cup {notification_key}

\* for notify_minutes in sorted(..., reverse=True): ... break (lines 400-417),
\* from threshold j on, for row r of the schedule
RECURSIVE AppThresholdLoop(_, _, _, _, _, _)
AppThresholdLoop(r, event_datetime, t, times, j, st) ==
    IF j > Len(times) THEN st
    ELSE LET notify_minutes == times[j]
             notification_key == AppKey(DF_SCHEDULE[r], notify_minutes)
         IN  IF /\ AppDue(Minutes(notify_minutes), event_datetime - t)
                /\ notification_key \notin st.ledger
             THEN [st EXCEPT !.ledger = AppRecord(@, notification_key),
                             !.out = Append(@, <<r, event_datetime, notify_minutes>>)]
             ELSE AppThresholdLoop(r, event_datetime, t, times, j + 1, st)

\* for index, row in filtered_df.iterrows(): ... (lines 380-417), from the
\* i-th kept row on; st is [ledger, out, next_event_info, min_time_diff]
RECURSIVE AppRowLoop(_, _, _, _, _)
AppRowLoop(rows, i, t, times, st) ==
    IF i > Len(rows) THEN st
    ELSE LET r == rows[i]
             event_datetime == AppEventDatetime(DF_SCHEDULE[r], t)
             time_diff == event_datetime - t
             st1 == IF time_diff > 0 /\ time_diff < st.min_time_diff
                    THEN [st EXCEPT !.next_event_info = <<DF_SCHEDULE[r].Boss, event_datetime>>,
                                    !.min_time_diff = time_diff]
                    ELSE st
         IN  AppRowLoop(rows, i + 1, t, times,
                        AppThresholdLoop(r, event_datetime, t, times, 1, st1))

\* Lines 365-371: the rows of today's weekday whose boss is active
FilteredRows(t, active_bosses_list) ==
    LET possible_day_names == {k \in DOMAIN WEEKDAY_MAP : WEEKDAY_MAP[k] = Weekday(t)}
    IN  SelectSeq([i \in 1..Len(DF_SCHEDULE) |-> i],
                  LAMBDA i : /\ Lower(DF_SCHEDULE[i].Gun) \in possible_day_names
                             /\ DF_SCHEDULE[i].Boss \in active_bosses_list)

\* Lines 419-432: the status shown at the end of a tick
NextEventStatus(next_event_info, t) ==
    IF next_event_info = <<>>
    THEN [kind |-> "No upcoming events found."]
    ELSE LET remaining_time == next_event_info[2] - t
         IN  [kind |-> "Next event", boss |-> next_event_info[1],
              next_time |-> next_event_info[2],
              days |-> remaining_time \div SecondsPerDay,
              hours |-> (remaining_time % SecondsPerDay) \div 3600,
              minutes |-> (remaining_time % 3600) \div 60]

\* The instants of a schedule row in three weeks
AppRowInstants(row) ==
    IF Lower(row.Gun) \in DOMAIN WEEKDAY_MAP
    THEN {WEEKDAY_MAP[Lower(row.Gun)] * SecondsPerDay + parse_time_str(row.Saat)
            + w * SecondsPerWeek : w \in 0..2}
    ELSE {}

\* Every triple <<row, occurrence, minutes>> the user's thresholds can arm
AppTriples ==
    UNION {{<<r, occ, m>> : occ \in AppRowInstants(DF_SCHEDULE[r]), m \in UserMinutes} :
              r \in 1..Len(DF_SCHEDULE)}

AppInit ==
    /\ variant = "app"
    /\ now \in AppStartTimes
    /\ a_pc = "poll"
    /\ tick_now = None
    /\ filtered_df = <<>>
    /\ is_running = FALSE
    /\ \E saved \in SavedSettings :
          /\ active_bosses = [b \in BossNames |-> b \in saved.bosses]
          /\ notification_settings = [k \in DOMAIN NOTIFICATION_TIMES |-> k \in saved.times]
    /\ notifications_sent_today = {}
    /\ last_reset_date = None
    /\ thread_started = FALSE
    /\ is_paused = TRUE
    /\ status_label = [kind |-> "Application ready."]
    /\ start_btn_enabled = TRUE
    /\ stop_btn_enabled = FALSE

\* The tick never returns at line 345 (mutant)
TickSkipped_Never(running) == FALSE

\* Line 345: the tick returns at once when monitoring is not running (the
\* schedule of the model is loaded and not empty)
TickSkipped(running) == ~running

\* The ledger is kept over the change of date (mutant)
ResetLedger_Keeps(ledger, last_date, today_date) == ledger

\* Lines 352-354: the ledger is emptied when the date is not that of the last
\* reset
ResetLedger(ledger, last_date, today_date) ==
    IF last_date # today_date THEN {} ELSE ledger

\* [boss for boss, active in self.active_bosses.items() if active]
ActiveBossesList(bosses) == {b \in DOMAIN bosses : bosses[b]}

\* The keys of the thresholds that are switched on
ActiveSettingKeys(settings) == {k \in DOMAIN settings : settings[k]}

\* stop_monitoring has set is_running to False and has not yet paused the
\* scheduler thread (between lines 308 and 315)
StopUnderWay == thread_started /\ ~is_running /\ ~is_paused

\* SchedulerThread.run finds the job due (30 s after the last run, or later
\* when the loop was held up) and check_for_notifications runs up to line 371:
\* the daily reset, the active bosses, the rows of today.  stop_monitoring
\* takes less than a period: at most one job comes due while it is under way
AppTickBegin ==
    /\ variant = "app"
    /\ a_pc = "poll"
    /\ thread_started /\ ~is_paused
    /\ ~stop_event
    /\ StopUnderWay => tick_now = now
    /\ \E waited \in {APP_PERIOD, (1 + StallTicks) * APP_PERIOD} :
          /\ now + waited <= AppEndTime
          /\ now' = now + waited
    /\ IF TickSkipped(is_running)
       THEN /\ win' = WinAfter(win, AppTriples, {}, now', APP_PERIOD, APP_WINDOW, APP_PERIOD)
            /\ UNCHANGED <<a_pc, tick_now, filtered_df, notifications_sent_today,
                           last_reset_date, status_label, snap>>
       ELSE LET active_bosses_list == ActiveBossesList(active_bosses)
            IN  /\ tick_now' = now'
                /\ notifications_sent_today' =
                      ResetLedger(notifications_sent_today, last_reset_date, DateOf(now'))
                /\ last_reset_date' = DateOf(now')
                /\ IF active_bosses_list = {}
                   THEN /\ status_label' = [kind |-> "No active bosses found to track."]
                        /\ win' = WinAfter(win, AppTriples, {}, now', APP_PERIOD,
                                           APP_WINDOW, APP_PERIOD)
                        /\ UNCHANGED <<a_pc, filtered_df, snap>>
                   ELSE /\ filtered_df' = FilteredRows(now', active_bosses_list)
                        /\ a_pc' = "gate"
                        /\ status_label' =
                              IF last_reset_date # DateOf(now')
                              THEN [kind |-> "New day. Notification history reset."]
                              ELSE status_label
                        /\ snap' = [events |-> active_bosses_list,
                                    seen |-> {ActiveSettingKeys(notification_settings)}]
                        /\ win' = win
    /\ UNCHANGED <<variant, resolverVars, lifeVars, workerVars, is_running, active_bosses,
                   notification_settings, thread_started, is_paused,
                   start_btn_enabled, stop_btn_enabled, sent, clicks>>

\* check_for_notifications from line 373 on: the active thresholds, the loop
\* over the rows, the status
AppTickGate ==
    /\ variant = "app"
    /\ a_pc = "gate"
    /\ LET active_notification_times ==
               {NOTIFICATION_TIMES[k] : k \in {x \in DOMAIN notification_settings :
                                                 notification_settings[x]}}
           times == SortedReverse(active_notification_times)
           st0 == [ledger |-> notifications_sent_today, out |-> <<>>,
                   next_event_info |-> <<>>,
                   min_time_diff |-> APP_MAX_DIFF_DAYS * SecondsPerDay]
           st == AppRowLoop(filtered_df, 1, tick_now, times, st0)
           evaluated == {<<r, m>> : r \in {x \in 1..Len(DF_SCHEDULE) :
                                              active_bosses[DF_SCHEDULE[x].Boss]},
                                    m \in active_notification_times}
       IN  /\ notifications_sent_today' = st.ledger
           /\ status_label' = NextEventStatus(st.next_event_info, tick_now)
           /\ sent' = CountAll(sent, st.out, 1)
           /\ win' = WinAfter(win, AppTriples, evaluated, tick_now, APP_PERIOD,
                              APP_WINDOW, APP_PERIOD)
    /\ a_pc' = "poll"
    /\ snap' = NoSnap
    /\ UNCHANGED <<variant, now, resolverVars, lifeVars, workerVars, tick_now, filtered_df, is_running,
                   active_bosses, notification_settings, last_reset_date, thread_started,
                   is_paused, start_btn_enabled, stop_btn_enabled, clicks>>

\* Time passes while no job can run: the thread is not started, or is paused;
\* the locals of the last call of check_for_notifications are gone
AppIdle ==
    /\ variant = "app"
    /\ a_pc = "poll"
    /\ ~thread_started \/ is_paused
    /\ now + APP_PERIOD <= AppEndTime
    /\ now' = now + APP_PERIOD
    /\ win' = WinAfter(win, AppTriples, {}, now', APP_PERIOD, APP_WINDOW, APP_PERIOD)
    /\ tick_now' = None
    /\ filtered_df' = <<>>
    /\ UNCHANGED <<variant, resolverVars, lifeVars, workerVars, a_pc, is_running, active_bosses,
                   notification_settings, notifications_sent_today, last_reset_date,
                   thread_started, is_paused, status_label, start_btn_enabled,
                   stop_btn_enabled, sent, clicks, snap>>

\* toggle_boss_active (a boss button clicked)
toggle_boss_active ==
    /\ variant = "app"
    /\ EventLoopRuns
    /\ clicks < MaxClicks
    /\ ~StopUnderWay
    /\ \E boss_name \in BossNames :
          active_bosses' = [active_bosses EXCEPT ![boss_name] = ~@]
    /\ status_label' = [kind |-> "Settings saved."]
    /\ clicks' = clicks + 1
    /\ snap' = SnapAfter(a_pc = "gate", ActiveBossesList(active_bosses'),
                         ActiveSettingKeys(notification_settings))
    /\ UNCHANGED <<variant, now, resolverVars, lifeVars, workerVars, a_pc, tick_now, filtered_df,
                   is_running, notification_settings, notifications_sent_today,
                   last_reset_date, thread_started, is_paused, start_btn_enabled,
                   stop_btn_enabled, sent, win>>

\* toggle_notification_setting (a threshold checkbox changed)
toggle_notification_setting ==
    /\ variant = "app"
    /\ EventLoopRuns
    /\ clicks < MaxClicks
    /\ ~StopUnderWay
    /\ \E setting_key \in UserMinuteKeys :
          notification_settings' = [notification_settings EXCEPT ![setting_key] = ~@]
    /\ status_label' = [kind |-> "Settings saved."]
    /\ clicks' = clicks + 1
    /\ snap' = SnapAfter(a_pc = "gate", ActiveBossesList(active_bosses),
                         ActiveSettingKeys(notification_settings'))
    /\ UNCHANGED <<variant, now, resolverVars, lifeVars, workerVars, a_pc, tick_now, filtered_df,
                   is_running, active_bosses, notifications_sent_today,
                   last_reset_date, thread_started, is_paused, start_btn_enabled,
                   stop_btn_enabled, sent, win>>

\* start_monitoring without its two checks of the selections (mutant)
start_monitoring_NoChecks ==
    /\ variant = "app"
    /\ clicks < MaxClicks
    /\ start_btn_enabled
    /\ ~StopUnderWay
    /\ clicks' = clicks + 1
    /\ IF is_running
       THEN /\ status_label' = [kind |-> "Application is already running."]
            /\ UNCHANGED <<is_running, thread_started, is_paused, start_btn_enabled,
                           stop_btn_enabled>>
       ELSE /\ is_running' = TRUE
            /\ status_label' = [kind |-> "Notifications started."]
            /\ start_btn_enabled' = FALSE
            /\ stop_btn_enabled' = TRUE
            /\ thread_started' = TRUE
            /\ is_paused' = FALSE
    /\ UNCHANGED <<variant, now, resolverVars, lifeVars, workerVars, a_pc, tick_now, filtered_df,
                   active_bosses, notification_settings, notifications_sent_today,
                   last_reset_date, sent, win, snap>>

\* start_monitoring (the Start button)
start_monitoring ==
    /\ variant = "app"
    /\ EventLoopRuns
    /\ clicks < MaxClicks
    /\ start_btn_enabled
    /\ ~StopUnderWay
    /\ clicks' = clicks + 1
    /\ IF is_running
       THEN /\ status_label' = [kind |-> "Application is already running."]
            /\ UNCHANGED <<is_running, thread_started, is_paused, start_btn_enabled,
                           stop_btn_enabled>>
       ELSE IF \A b \in BossNames : ~active_bosses[b]
       THEN /\ status_label' = [kind |-> "No bosses selected."]
            /\ UNCHANGED <<is_running, thread_started, is_paused, start_btn_enabled,
                           stop_btn_enabled>>
       ELSE IF \A k \in DOMAIN notification_settings : ~notification_settings[k]
       THEN /\ status_label' = [kind |-> "No notification times selected."]
            /\ UNCHANGED <<is_running, thread_started, is_paused, start_btn_enabled,
                           stop_btn_enabled>>
       ELSE /\ is_running' = TRUE
            /\ status_label' = [kind |-> "Notifications started."]
            /\ start_btn_enabled' = FALSE
            /\ stop_btn_enabled' = TRUE
            /\ thread_started' = ~stop_event
            /\ is_paused' = FALSE
    /\ UNCHANGED <<variant, now, resolverVars, lifeVars, workerVars, a_pc, tick_now, filtered_df,
                   active_bosses, notification_settings, notifications_sent_today,
                   last_reset_date, sent, win, snap>>

\* stop_monitoring also forgetting what was notified (mutant)
stop_monitoring_ClearsLedger ==
    /\ variant = "app"
    /\ clicks < MaxClicks
    /\ stop_btn_enabled
    /\ ~StopUnderWay
    /\ clicks' = clicks + 1
    /\ notifications_sent_today' = {}
    /\ IF ~is_running
       THEN /\ status_label' = [kind |-> "Application is already stopped."]
            /\ UNCHANGED <<is_running, start_btn_enabled, stop_btn_enabled>>
       ELSE /\ is_running' = FALSE
            /\ status_label' = [kind |-> "Notifications stopped."]
            /\ start_btn_enabled' = TRUE
            /\ stop_btn_enabled' = FALSE
    /\ UNCHANGED <<variant, now, resolverVars, lifeVars, workerVars, a_pc, tick_now, filtered_df,
                   active_bosses, notification_settings,
                   last_reset_date, thread_started, is_paused, sent, win, snap>>

\* stop_monitoring (the Stop button), lines 303-311: up to the buttons
stop_monitoring ==
    /\ variant = "app"
    /\ EventLoopRuns
    /\ clicks < MaxClicks
    /\ stop_btn_enabled
    /\ ~StopUnderWay
    /\ clicks' = clicks + 1
    /\ IF ~is_running
       THEN /\ status_label' = [kind |-> "Application is already stopped."]
            /\ UNCHANGED <<is_running, start_btn_enabled, stop_btn_enabled>>
       ELSE /\ is_running' = FALSE
            /\ status_label' = [kind |-> "Notifications stopped."]
            /\ start_btn_enabled' = TRUE
            /\ stop_btn_enabled' = FALSE
    /\ UNCHANGED <<variant, now, resolverVars, lifeVars, workerVars, a_pc, tick_now, filtered_df,
                   active_bosses, notification_settings, notifications_sent_today,
                   last_reset_date, thread_started, is_paused, sent, win, snap>>

\* stop_monitoring taking the thread for not running and returning without
\* the pause (mutant)
stop_monitoring_pause_Forgotten ==
    /\ variant = "app"
    /\ StopUnderWay
    /\ thread_started' = FALSE
    /\ UNCHANGED <<variant, now, resolverVars, lifeVars, workerVars, a_pc, tick_now, filtered_df,
                   is_running, active_bosses, notification_settings,
                   notifications_sent_today, last_reset_date, is_paused,
                   status_label, start_btn_enabled, stop_btn_enabled, historyVars>>

\* stop_monitoring, lines 313-315: the scheduler thread is paused
stop_monitoring_pause ==
    /\ variant = "app"
    /\ EventLoopRuns
    /\ StopUnderWay
    /\ is_paused' = TRUE
    /\ UNCHANGED <<variant, now, resolverVars, lifeVars, workerVars, a_pc, tick_now, filtered_df,
                   is_running, active_bosses, notification_settings,
                   notifications_sent_today, last_reset_date, thread_started,
                   status_label, start_btn_enabled, stop_btn_enabled, historyVars>>

\* Minimizing also pauses the scheduler (mutant)
minimize_to_tray_Pauses ==
    /\ variant = "app"
    /\ EventLoopRuns
    /\ clicks < MaxClicks
    /\ ~StopUnderWay
    /\ window_shown
    /\ window_shown' = FALSE
    /\ is_paused' = TRUE
    /\ status_label' = [kind |-> "Application minimized to tray."]
    /\ clicks' = clicks + 1
    /\ UNCHANGED <<data_file, main_pc, exit_code, stop_event, failed>>
    /\ UNCHANGED <<variant, now, resolverVars, workerVars, a_pc, tick_now, filtered_df,
                   is_running, active_bosses, notification_settings,
                   notifications_sent_today, last_reset_date, thread_started,
                   start_btn_enabled, stop_btn_enabled, sent, win, snap>>

\* minimize_to_tray (the minimize button, or closeEvent of lines 338-341),
\* lines 318-328: the window is hidden
minimize_to_tray ==
    /\ variant = "app"
    /\ EventLoopRuns
    /\ clicks < MaxClicks
    /\ ~StopUnderWay
    /\ window_shown
    /\ window_shown' = FALSE
    /\ status_label' = [kind |-> "Application minimized to tray."]
    /\ clicks' = clicks + 1
    /\ UNCHANGED <<data_file, main_pc, exit_code, stop_event, failed>>
    /\ UNCHANGED <<variant, now, resolverVars, workerVars, a_pc, tick_now, filtered_df,
                   is_running, active_bosses, notification_settings,
                   notifications_sent_today, last_reset_date, thread_started,
                   is_paused, start_btn_enabled, stop_btn_enabled, sent, win, snap>>

\* tray_icon_activated (the tray icon clicked), lines 330-336: the window is
\* shown again
tray_icon_activated ==
    /\ variant = "app"
    /\ EventLoopRuns
    /\ clicks < MaxClicks
    /\ ~StopUnderWay
    /\ window_shown' = TRUE
    /\ status_label' = [kind |-> "Application window restored."]
    /\ clicks' = clicks + 1
    /\ UNCHANGED <<data_file, main_pc, exit_code, stop_event, failed>>
    /\ UNCHANGED <<variant, now, resolverVars, workerVars, a_pc, tick_now, filtered_df,
                   is_running, active_bosses, notification_settings,
                   notifications_sent_today, last_reset_date, thread_started,
                   is_paused, start_btn_enabled, stop_btn_enabled, sent, win, snap>>

AppNext ==
    \/ AppTickBegin
    \/ AppTickGate
    \/ AppIdle
    \/ toggle_boss_active
    \/ toggle_notification_setting
    \/ start_monitoring
    \/ stop_monitoring
    \/ stop_monitoring_pause
    \/ minimize_to_tray
    \/ tray_icon_activated

WorkerIdle ==
    /\ w_pc = "idle"
    /\ current_time = None
    /\ selected_boss_ids = {}
    /\ boss_checked = {}
    /\ minute_checked = {}
    /\ w_is_active = FALSE
    /\ notified_spawn_times = {}
    /\ live_info_label = [kind |-> "loading", entries |-> <<>>]
    /\ active_button_enabled = FALSE
    /\ deactive_button_enabled = FALSE

AppIdleState ==
    /\ a_pc = "idle"
    /\ tick_now = None
    /\ filtered_df = <<>>
    /\ is_running = FALSE
    /\ active_bosses = <<>>
    /\ notification_settings = <<>>
    /\ notifications_sent_today = {}
    /\ last_reset_date = None
    /\ thread_started = FALSE
    /\ is_paused = TRUE
    /\ status_label = [kind |-> "Application ready."]
    /\ start_btn_enabled = FALSE
    /\ stop_btn_enabled = FALSE

HistoryInit ==
    /\ sent = <<>>
    /\ win = <<>>
    /\ clicks = 0
    /\ snap = NoSnap

ResolverIdle ==
    /\ rs_spawn_times = <<>>
    /\ rs_current_time = 0
    /\ rs_result = None
    /\ rs_pc = "idle"

\* The program is up: the data was loaded, the window is shown, the event
\* loop runs and no thread has been told to stop
LifeRunning ==
    /\ data_file = "good"
    /\ main_pc = "events"
    /\ window_shown = TRUE
    /\ exit_code = None
    /\ stop_event = FALSE
    /\ failed = {}

Init ==
    /\ \/ WorkerInit /\ AppIdleState
       \/ AppInit /\ WorkerIdle
    /\ ResolverIdle
    /\ HistoryInit
    /\ LifeRunning

Next == WorkerNext \/ AppNext

Spec == Init /\ [][Next]_vars

\* ------------------------------------------------------------------------
\* Start-up, shutdown and faults: the main thread of boss_notifier_app.py from
\* __main__ on, a rule of boss_data.json that raises, quit_app; stop_thread of
\* app.py
\* ------------------------------------------------------------------------

DataFiles == {"good"} \cup BadRuleFiles \cup UnloadableFiles

\* __main__ of boss_notifier_app.py has created the QApplication and is about
\* to construct the main window
LifeWorkerInit ==
    /\ variant = "worker"
    /\ now \in WorkerStartTimes
    /\ data_file \in DataFiles
    /\ main_pc = "ctor"
    /\ window_shown = FALSE
    /\ exit_code = None
    /\ stop_event = FALSE
    /\ failed = {}
    /\ WorkerIdle
    /\ AppIdleState

LifeInit ==
    /\ \/ LifeWorkerInit
       \/ AppInit /\ WorkerIdle /\ LifeRunning
    /\ ResolverIdle
    /\ HistoryInit

\* BossNotifierApp.__init__, lines 231-258: without data QApplication.quit()
\* is called, which does nothing while no event loop runs, and the
\* constructor returns; with data the widgets are made, every boss checked,
\* and the worker thread is started
BossNotifierApp_init ==
    /\ variant = "worker"
    /\ main_pc = "ctor"
    /\ main_pc' = "show"
    /\ IF data_file \in UnloadableFiles
       THEN UNCHANGED workerVars
       ELSE /\ w_pc' = "status"
            /\ boss_checked' = {FileBossData(data_file)[i].id :
                                   i \in 1..Len(FileBossData(data_file))}
            /\ active_button_enabled' = TRUE
            /\ UNCHANGED <<current_time, selected_boss_ids, minute_checked, w_is_active,
                           notified_spawn_times, live_info_label,
                           deactive_button_enabled>>
    /\ UNCHANGED <<variant, now, resolverVars, appVars, historyVars, data_file,
                   window_shown, exit_code, stop_event, failed>>

\* main_window.show(), line 423
main_show ==
    /\ variant = "worker"
    /\ main_pc = "show"
    /\ window_shown' = TRUE
    /\ main_pc' = "exec"
    /\ UNCHANGED <<variant, now, resolverVars, workerVars, appVars, historyVars,
                   data_file, exit_code, stop_event, failed>>

\* sys.exit(app.exec_()), line 425: the event loop is entered; the quit() of
\* line 240 was called before it and is forgotten
main_exec ==
    /\ variant = "worker"
    /\ main_pc = "exec"
    /\ main_pc' = "events"
    /\ UNCHANGED <<variant, now, resolverVars, workerVars, appVars, historyVars,
                   data_file, window_shown, exit_code, stop_event, failed>>

\* run(), lines 126-143, when get_next_spawn_time raises: nothing in run()
\* catches, the loop is left before the status is emitted; PyQt either ends
\* the thread or aborts the process on the unhandled exception
WorkerStatusRaises ==
    /\ variant = "worker"
    /\ w_pc = "status"
    /\ ProcessAlive
    /\ StatusRaises(get_selected_boss_ids)
    /\ current_time' = now
    /\ selected_boss_ids' = get_selected_boss_ids
    /\ w_pc' = "dead"
    /\ \/ UNCHANGED <<main_pc, exit_code>>
       \/ main_pc' = "aborted" /\ exit_code' = 134
    /\ UNCHANGED <<variant, now, resolverVars, appVars, historyVars, boss_checked,
                   minute_checked, w_is_active, notified_spawn_times, live_info_label,
                   active_button_enabled, deactive_button_enabled, data_file,
                   window_shown, stop_event, failed>>

\* quit_app, lines 404-408 (Exit in the tray menu): the tray icon is hidden,
\* worker_thread.quit() asks an event loop to stop that run() never starts,
\* and the main thread blocks in worker_thread.wait()
quit_app ==
    /\ variant = "worker"
    /\ EventLoopRuns
    /\ w_pc # "idle"
    /\ main_pc' = "wait"
    /\ UNCHANGED <<variant, now, resolverVars, workerVars, appVars, historyVars,
                   data_file, window_shown, exit_code, stop_event, failed>>

\* quit_app, line 409: wait() has returned because run() has ended;
\* QApplication.quit() ends app.exec_() and the process exits with 0
quit_app_returns ==
    /\ variant = "worker"
    /\ main_pc = "wait"
    /\ w_pc = "dead"
    /\ main_pc' = "exited"
    /\ exit_code' = 0
    /\ UNCHANGED <<variant, now, resolverVars, workerVars, appVars, historyVars,
                   data_file, window_shown, stop_event, failed>>

\* stop_thread, lines 464-467: the stop flag is set, the jobs are cleared and
\* the caller blocks in wait()
stop_thread ==
    /\ variant = "app"
    /\ EventLoopRuns
    /\ ~StopUnderWay
    /\ stop_event' = TRUE
    /\ main_pc' = "wait"
    /\ UNCHANGED <<variant, now, resolverVars, workerVars, appVars, historyVars,
                   data_file, window_shown, exit_code, failed>>

\* SchedulerThread.run, line 451: the loop finds _stop_event set and ends
SchedulerThread_exit ==
    /\ variant = "app"
    /\ thread_started
    /\ stop_event
    /\ a_pc = "poll"
    /\ thread_started' = FALSE
    /\ UNCHANGED <<variant, now, resolverVars, workerVars, historyVars, lifeVars, a_pc,
                   tick_now, filtered_df, is_running, active_bosses,
                   notification_settings, notifications_sent_today, last_reset_date,
                   is_paused, status_label, start_btn_enabled, stop_btn_enabled>>

\* stop_thread, line 468: wait() returns once the thread has finished (at
\* once for a thread that never ran)
stop_thread_returns ==
    /\ variant = "app"
    /\ main_pc = "wait"
    /\ ~thread_started
    /\ main_pc' = "events"
    /\ UNCHANGED <<variant, now, resolverVars, workerVars, appVars, historyVars,
                   data_file, window_shown, exit_code, stop_event, failed>>

\* What lines 373-417 compute in the tick under way when every call of the
\* sink succeeds
AppGateResult ==
    LET active_notification_times ==
            {NOTIFICATION_TIMES[k] : k \in {x \in DOMAIN notification_settings :
                                              notification_settings[x]}}
        times == SortedReverse(active_notification_times)
        st0 == [ledger |-> notifications_sent_today, out |-> <<>>,
                next_event_info |-> <<>>,
                min_time_diff |-> APP_MAX_DIFF_DAYS * SecondsPerDay]
    IN  AppRowLoop(filtered_df, 1, tick_now, times, st0)

\* check_for_notifications from line 373 on when the first
\* self.toast.show_toast of the tick (line 414) fails.  The library either
\* reports the failure by its return value or fails in its own thread, and
\* the tick goes on as if the toast had been shown; or the call raises:
\* nothing in check_for_notifications, schedule.run_pending or
\* SchedulerThread.run catches, line 415 and the rest of the tick are not
\* run, and PyQt ends the thread or aborts the process
AppTickGateSinkFails ==
    /\ variant = "app"
    /\ a_pc = "gate"
    /\ ProcessAlive
    /\ AppGateResult.out # <<>>
    /\ failed' = failed \cup {AppGateResult.out[1]}
    /\ a_pc' = "poll"
    /\ snap' = NoSnap
    /\ \/ /\ notifications_sent_today' = AppGateResult.ledger
          /\ status_label' = NextEventStatus(AppGateResult.next_event_info, tick_now)
          /\ sent' = CountAll(sent, Tail(AppGateResult.out), 1)
          /\ UNCHANGED <<thread_started, main_pc, exit_code>>
       \/ /\ thread_started' = FALSE
          /\ \/ UNCHANGED <<main_pc, exit_code>>
             \/ main_pc' = "aborted" /\ exit_code' = 134
          /\ UNCHANGED <<notifications_sent_today, status_label, sent>>
    /\ UNCHANGED <<variant, now, resolverVars, workerVars, tick_now, filtered_df,
                   is_running, active_bosses, notification_settings, last_reset_date,
                   is_paused, start_btn_enabled, stop_btn_enabled, win, clicks,
                   data_file, window_shown, stop_event>>

\* A step of the main thread that needs no user
MainThreadStep ==
    \/ BossNotifierApp_init
    \/ main_show
    \/ main_exec
    \/ quit_app_returns
    \/ stop_thread_returns
    \/ stop_monitoring_pause

LifeNext ==
    \/ BossNotifierApp_init
    \/ main_show
    \/ main_exec
    \/ WorkerStatus
    \/ WorkerStatusRaises
    \/ WorkerNotify
    \/ quit_app
    \/ quit_app_returns
    \/ AppTickBegin
    \/ AppTickGate
    \/ AppTickGateSinkFails
    \/ AppIdle
    \/ start_monitoring
    \/ stop_monitoring
    \/ stop_monitoring_pause
    \/ stop_thread
    \/ SchedulerThread_exit
    \/ stop_thread_returns

\* The threads are scheduled: a step of the worker's loop, of the scheduler's
\* loop or of the main thread's program that stays possible is taken; the
\* user's clicks are under no obligation
SpecLife ==
    /\ LifeInit
    /\ [][LifeNext]_vars
    /\ WF_vars(WorkerStatus)
    /\ WF_vars(WorkerStatusRaises)
    /\ WF_vars(WorkerNotify)
    /\ WF_vars(AppTickGate \/ AppTickGateSinkFails)
    /\ WF_vars(SchedulerThread_exit)
    /\ WF_vars(MainThreadStep)

\* ------------------------------------------------------------------------
\* The resolver called on bounded inputs
\* ------------------------------------------------------------------------

\* "monday" is a day name DAY_MAPPING does not hold
RuleDays == {"Monday", "Wednesday", "Sunday", "monday"}
RuleTimes == {"00:00", "08:00", "14:00"}
RuleUniverse == [day : RuleDays, time : RuleTimes]

SpawnLists == UNION {[1..n -> RuleUniverse] : n \in 0..MaxRules}

\* Reference instants: Monday, Wednesday and Sunday, around the rule times
SampleTimesOfDay ==
    {0, 7 * 3600 + 59 * 60 + 59, 8 * 3600, 8 * 3600 + 5, 9 * 3600, 14 * 3600,
     23 * 3600 + 59 * 60 + 59}

SampleInstants == {d * SecondsPerDay + tod : d \in {0, 2, 6}, tod \in SampleTimesOfDay}

ResolverInit ==
    /\ variant = "resolver"
    /\ rs_spawn_times \in SpawnLists
    /\ rs_current_time \in SampleInstants
    /\ rs_result = None
    /\ rs_pc = "call"
    /\ now = 0
    /\ WorkerIdle
    /\ AppIdleState
    /\ HistoryInit
    /\ LifeRunning

ResolverCall ==
    /\ rs_pc = "call"
    /\ rs_result' = get_next_spawn_time("boss", rs_spawn_times, rs_current_time)
    /\ rs_pc' = "done"
    /\ UNCHANGED <<variant, now, rs_spawn_times, rs_current_time, lifeVars, workerVars, appVars,
                   historyVars>>

ResolverNext == ResolverCall

SpecResolver == ResolverInit /\ [][ResolverNext]_vars

\* ------------------------------------------------------------------------
\* Properties of get_next_spawn_time (checked under SpecResolver)
\* ------------------------------------------------------------------------

Recognised(spawn) == spawn.day \in DOMAIN DAY_MAPPING

\* The rule's time of day, in seconds after midnight
RuleTimeOfDay(spawn) == SplitTime(spawn.time)[1] * 3600 + SplitTime(spawn.time)[2] * 60

\* Monday 00:00:00 of the week of t
WeekStart(t) == (DateOf(t) - Weekday(t)) * SecondsPerDay

\* The instant of the rule in the week of t
RuleInstantInWeekOf(spawn, t) ==
    WeekStart(t) + DAY_MAPPING[spawn.day] * SecondsPerDay + RuleTimeOfDay(spawn)

\* The naive candidate: current_time's date plus ((ruleDay - weekday + 7) mod 7)
\* days, at the rule's hour and minute, seconds zero
NaiveCandidate(spawn, t) ==
    (DateOf(t) + ((DAY_MAPPING[spawn.day] - Weekday(t) + 7) % 7)) * SecondsPerDay
        + RuleTimeOfDay(spawn)

\* The first instant strictly after t at which the rule fires
FirstAfter(spawn, t) ==
    LET occ == {RuleInstantInWeekOf(spawn, t) + k * SecondsPerWeek : k \in 0..1}
    IN  CHOOSE x \in occ : x > t /\ \A y \in occ : y > t => x <= y

SingleRecognised ==
    /\ rs_pc = "done"
    /\ Len(rs_spawn_times) = 1
    /\ Recognised(rs_spawn_times[1])

\* C3: whenever get_next_spawn_time returns a value it is strictly greater than
\* current_time; a rule whose day and time equal current_time exactly resolves
\* one week later, never to current_time itself.
C3_StrictlyFuture ==
    /\ (rs_pc = "done" /\ rs_result # None) => rs_result > rs_current_time
    /\ (SingleRecognised
          /\ RuleInstantInWeekOf(rs_spawn_times[1], rs_current_time) = rs_current_time)
        => rs_result = rs_current_time + SecondsPerWeek

C3_Witness ==
    /\ SingleRecognised
    /\ RuleInstantInWeekOf(rs_spawn_times[1], rs_current_time) = rs_current_time
    /\ rs_result = rs_current_time + SecondsPerWeek

\* C4: for a single recognised rule, when the naive candidate is less than or
\* equal to current_time the result is exactly that candidate plus 7 days, and
\* is strictly greater than current_time (Monday 08:00 at Monday 08:00:05 gives
\* next Monday 08:00).
C4_RollsOneWeek ==
    (SingleRecognised /\ NaiveCandidate(rs_spawn_times[1], rs_current_time) <= rs_current_time)
        => /\ rs_result = NaiveCandidate(rs_spawn_times[1], rs_current_time) + 7 * 86400
           /\ rs_result > rs_current_time
           /\ (rs_spawn_times[1] = [day |-> "Monday", time |-> "08:00"]
                 /\ rs_current_time = 8 * 3600 + 5)
               => rs_result = 7 * 86400 + 8 * 3600

C4_Witness ==
    /\ SingleRecognised
    /\ rs_spawn_times[1] = [day |-> "Monday", time |-> "08:00"]
    /\ rs_current_time = 8 * 3600 + 5
    /\ rs_result = 7 * 86400 + 8 * 3600

\* C5: for a single recognised rule, when the naive candidate is strictly after
\* current_time the result is exactly that candidate, no week added: a rule on
\* current_time's weekday with a later time of day yields today at that time, a
\* rule on a later weekday yields that weekday of the same week (Wednesday 14:00
\* at Monday 09:00 gives Wednesday 14:00 of the same week).
C5_NoWeekAdded ==
    SingleRecognised =>
        LET spawn == rs_spawn_times[1]
            t == rs_current_time
        IN  /\ NaiveCandidate(spawn, t) > t => rs_result = NaiveCandidate(spawn, t)
            /\ (DAY_MAPPING[spawn.day] = Weekday(t) /\ RuleTimeOfDay(spawn) > t % 86400)
                => rs_result = DateOf(t) * 86400 + RuleTimeOfDay(spawn)
            /\ DAY_MAPPING[spawn.day] > Weekday(t)
                => rs_result = RuleInstantInWeekOf(spawn, t)

C5_Witness ==
    /\ SingleRecognised
    /\ rs_spawn_times[1] = [day |-> "Wednesday", time |-> "14:00"]
    /\ rs_current_time = 9 * 3600
    /\ rs_result = 2 * 86400 + 14 * 3600

\* The spawn_times list in the order p
Reordered(spawn_times, p) == [i \in 1..Len(spawn_times) |-> spawn_times[p[i]]]

\* C6: for several rules the result is the minimum of the single-rule next
\* occurrences over the rules whose day name is recognised, independent of the
\* order of the rules; unrecognised rules are skipped, and the result is None
\* exactly when no rule has a recognised day.
C6_MinimumOverRules ==
    rs_pc = "done" =>
        LET known == {i \in 1..Len(rs_spawn_times) : Recognised(rs_spawn_times[i])}
            each == {FirstAfter(rs_spawn_times[i], rs_current_time) : i \in known}
        IN  /\ (rs_result = None) <=> (known = {})
            /\ known # {} => /\ rs_result \in each
                             /\ \A x \in each : rs_result <= x
            /\ \A p \in Permutations(1..Len(rs_spawn_times)) :
                  get_next_spawn_time("boss", Reordered(rs_spawn_times, p), rs_current_time)
                      = rs_result

\* Two recognised rules with different next occurrences, the later one first,
\* and an unrecognised rule skipped
C6_Witness ==
    /\ rs_pc = "done"
    /\ Len(rs_spawn_times) = 2
    /\ Recognised(rs_spawn_times[1]) /\ Recognised(rs_spawn_times[2])
    /\ FirstAfter(rs_spawn_times[2], rs_current_time)
         < FirstAfter(rs_spawn_times[1], rs_current_time)
    /\ rs_result = FirstAfter(rs_spawn_times[2], rs_current_time)

\* ------------------------------------------------------------------------
\* Properties of the two notification loops, checked under Spec
\* ------------------------------------------------------------------------

\* How many notifications the history f holds for the triple k
CountOf(f, k) == IF k \in DOMAIN f THEN f[k] ELSE 0

\* The triples for which the step emits a notification
Emitted == {k \in DOMAIN sent' : CountOf(sent', k) > CountOf(sent, k)}

\* A step that runs the notification loop of the worker
WorkerTickStep == variant = "worker" /\ w_pc = "notify" /\ w_pc' = "status"

\* A step that runs the loop over the rows of check_for_notifications
AppGateStep == variant = "app" /\ a_pc = "gate" /\ a_pc' = "poll"

\* C1: in boss_notifier_app.py no key (boss_id, next_spawn, minutes_before) is
\* ever notified more than once, whatever the ticks, several of them inside
\* one 65-second arming window and each followed by the pruning of the ledger.
C1_AtMostOncePerKey ==
    variant = "worker" => \A k \in DOMAIN sent : sent[k] <= 1

\* A key notified once whose window has then been polled four more times by
\* evaluating ticks
C1_Witness ==
    /\ variant = "worker"
    /\ w_pc = "status"
    /\ \E k \in DOMAIN sent :
          /\ sent[k] = 1
          /\ k \in DOMAIN win /\ win[k] = "full"
          /\ current_time >= WindowStart(k) + 4 * 15
          /\ k \in notified_spawn_times

\* C2: in boss_notifier_app.py every occurrence of every rule of a selected
\* boss, and every enabled threshold, gets exactly one notification when the
\* active worker has ticked every 15 seconds throughout the arming window.
C2_EveryOccurrenceNotified ==
    (variant = "worker" /\ w_pc = "status") =>
        \A k \in DOMAIN win :
            (win[k] = "full" /\ now >= WindowStart(k) + 65) => CountOf(sent, k) = 1

C7_WitnessApp ==
    /\ variant = "app"
    /\ a_pc = "poll"
    /\ \E k \in DOMAIN sent :
          /\ tick_now = WindowStart(k)
          /\ sent[k] = 1
          /\ AppKey(DF_SCHEDULE[k[1]], k[3]) \in notifications_sent_today

\* C8: no backfill in either variant: a notification for a triple is emitted
\* only by a tick whose instant lies inside the triple's arming window, so a
\* window that passed without an evaluating tick is never made up for later.
C8_NoBackfill ==
    [][ \A k \in Emitted :
            LET t == IF variant = "worker" THEN current_time ELSE tick_now
                W == IF variant = "worker" THEN 65 ELSE 30
            IN  /\ WorkerTickStep \/ AppGateStep
                /\ WindowStart(k) <= t
                /\ t < WindowStart(k) + W
      ]_vars

\* The worker evaluates a boss and a threshold on a tick after the window of
\* the boss's coming spawn has closed without a notification, and before the
\* spawn
C8_Witness ==
    /\ variant = "worker"
    /\ w_pc = "status"
    /\ \E k \in WorkerTriples, k3 \in DOMAIN win :
          /\ k3[1] = k[1] /\ k3[3] = k[3] /\ win[k3] = "full"
          /\ k \notin DOMAIN sent
          /\ WindowStart(k) + 65 <= current_time
          /\ current_time < k[2]
          /\ <<k[1], k[2]>> \in WorkerResolved(selected_boss_ids, current_time)

\* The same for app.py: monitoring was started after the window of a row of
\* today had closed, and the tick that evaluates the row emits nothing for it
C8_WitnessApp ==
    /\ variant = "app"
    /\ a_pc = "poll"
    /\ is_running
    /\ \E k \in AppTriples :
          /\ k \notin DOMAIN sent
          /\ WindowStart(k) + 30 <= tick_now
          /\ tick_now < k[2]
          /\ DateOf(tick_now) = DateOf(WindowStart(k))
          /\ AppKey(DF_SCHEDULE[k[1]], k[3]) \notin notifications_sent_today
          /\ status_label.kind = "Next event"
          /\ active_bosses[DF_SCHEDULE[k[1]].Boss]
          /\ \E key \in DOMAIN notification_settings :
                notification_settings[key] /\ NOTIFICATION_TIMES[key] = k[3]

C9_WitnessApp ==
    /\ variant = "app"
    /\ a_pc = "poll"
    /\ \E k \in DOMAIN sent :
          /\ k[3] = 5
          /\ tick_now = k[2] - 5 * 60
          /\ sent[k] = 1
          /\ CountOf(sent, <<k[1], k[2], 15>>) = 1

\* C10: in app.py a tick of check_for_notifications emits at most one
\* notification for each boss name, also for a boss with several rows on the
\* current weekday.
C10_OnePerBossPerTick ==
    [][ AppGateStep =>
            \A boss \in BossNames :
                Cardinality({k \in Emitted : DF_SCHEDULE[k[1]].Boss = boss}) <= 1
      ]_vars

\* What does hold in app.py: a tick emits at most one notification for each
\* row of the schedule
C10_OnePerRowPerTick ==
    [][ AppGateStep =>
            \A r \in 1..Len(DF_SCHEDULE) :
                Cardinality({k \in Emitted : k[1] = r}) <= 1
      ]_vars

\* The thresholds that are switched on, in minutes
EnabledTimes == {NOTIFICATION_TIMES[x] : x \in ActiveSettingKeys(notification_settings)}

\* C11: in app.py the enabled thresholds of a row are examined from the largest
\* to the smallest; a row notified in a tick is notified for the largest
\* enabled threshold whose window holds now and whose key is not in the ledger,
\* and nothing else is emitted or recorded for the row in that tick.
C11_LargestDueFirst ==
    [][ AppGateStep =>
          /\ LET times == SortedReverse(EnabledTimes)
             IN  /\ {times[j] : j \in 1..Len(times)} = EnabledTimes
                 /\ \A i, j \in 1..Len(times) : i < j => times[i] > times[j]
          /\ \A i \in 1..Len(filtered_df) :
                LET r == filtered_df[i]
                    row == DF_SCHEDULE[r]
                    occ == AppEventDatetime(row, tick_now)
                    due == {T \in EnabledTimes :
                              /\ occ - T * 60 <= tick_now
                              /\ tick_now < occ - T * 60 + 30
                              /\ <<row.Boss, row.Gun, row.Saat, T>>
                                     \notin notifications_sent_today}
                    largest == CHOOSE T \in due : \A U \in due : U <= T
                    fired == IF due = {} THEN {} ELSE {largest}
                IN  /\ {k \in Emitted : k[1] = r} = {<<r, occ, T>> : T \in fired}
                    /\ {key \in notifications_sent_today' \ notifications_sent_today :
                           <<key[1], key[2], key[3]>> = <<row.Boss, row.Gun, row.Saat>>}
                         = {<<row.Boss, row.Gun, row.Saat, T>> : T \in fired}
      ]_vars

\* A tick has notified a row fifteen minutes ahead while the five-minute
\* threshold is enabled too and stays unrecorded
C11_Witness ==
    /\ variant = "app"
    /\ a_pc = "poll"
    /\ {5, 15} \subseteq EnabledTimes
    /\ \E k \in DOMAIN sent :
          /\ k[3] = 15
          /\ tick_now = WindowStart(k)
          /\ now = tick_now
          /\ AppKey(DF_SCHEDULE[k[1]], 15) \in notifications_sent_today
          /\ AppKey(DF_SCHEDULE[k[1]], 5) \notin notifications_sent_today

\* Two triples of the same event and threshold at different occurrences
OtherOccurrence(k, k2) == k2[1] = k[1] /\ k2[3] = k[3] /\ k2[2] # k[2]

\* C12 as stated: in both variants the keys built for the same event and
\* threshold at two different occurrences are different.
C12_KeysDistinguishOccurrences ==
    /\ variant = "worker" =>
          \A k \in DOMAIN sent, k2 \in WorkerTriples :
              OtherOccurrence(k, k2) =>
                  WorkerKey(k2[1], k2[2], k2[3]) # WorkerKey(k[1], k[2], k[3])
    /\ variant = "app" =>
          \A k \in DOMAIN sent, k2 \in AppTriples :
              OtherOccurrence(k, k2) =>
                  AppKey(DF_SCHEDULE[k2[1]], k2[3]) # AppKey(DF_SCHEDULE[k[1]], k[3])

\* C12 amended: in boss_notifier_app.py the keys of two occurrences differ; in
\* app.py they are the same key, and when the gates of a tick are evaluated
\* every entry of the ledger stands for an occurrence notified on the date of
\* that tick, never for last week's.
C12_KeysOrResetDistinguish ==
    /\ variant = "worker" =>
          \A k \in DOMAIN sent, k2 \in WorkerTriples :
              OtherOccurrence(k, k2) =>
                  WorkerKey(k2[1], k2[2], k2[3]) # WorkerKey(k[1], k[2], k[3])
    /\ variant = "app" =>
          /\ \A k \in DOMAIN sent, k2 \in AppTriples :
                OtherOccurrence(k, k2) =>
                    AppKey(DF_SCHEDULE[k2[1]], k2[3]) = AppKey(DF_SCHEDULE[k[1]], k[3])
          /\ a_pc = "gate" =>
                \A key \in notifications_sent_today :
                    \E k \in DOMAIN sent :
                        /\ AppKey(DF_SCHEDULE[k[1]], k[3]) = key
                        /\ DateOf(WindowStart(k)) = DateOf(tick_now)

\* The gates of a Tuesday tick are about to be evaluated with an entry of
\* Tuesday in the ledger, after a notification on Monday
C12_Witness ==
    /\ variant = "app"
    /\ a_pc = "gate"
    /\ notifications_sent_today # {}
    /\ \E k \in DOMAIN sent : DateOf(WindowStart(k)) < DateOf(tick_now)

\* C13: in boss_notifier_app.py the pruning at the end of every tick keeps
\* exactly the keys whose occurrence is later than current_time minus 15
\* minutes; so no key is removed while its occurrence is still ahead, and after
\* the tick no entry has an occurrence 15 minutes or more in the past.
C13_PruneKeepsExactlyRecent ==
    [][ WorkerTickStep =>
          LET before == notified_spawn_times \cup Emitted
          IN  /\ notified_spawn_times' = {k \in before : k[2] > current_time - 15 * 60}
              /\ \A k \in before : k[2] > current_time => k \in notified_spawn_times'
              /\ \A k \in notified_spawn_times' : ~(k[2] <= current_time - 15 * 60)
      ]_vars

\* The tick exactly 15 minutes after a notified spawn has removed its key
C13_Witness ==
    /\ variant = "worker"
    /\ w_pc = "status"
    /\ \E k \in DOMAIN sent :
          /\ k[2] = current_time - 15 * 60
          /\ k \notin notified_spawn_times

\* The largest threshold the user of boss_notifier_app.py can enable
LargestOption ==
    CHOOSE m \in {notification_minutes_options[i] : i \in 1..Len(notification_minutes_options)} :
        \A j \in 1..Len(notification_minutes_options) : notification_minutes_options[j] <= m

AppBeginStep == variant = "app" /\ a_pc = "poll" /\ now' > now /\ tick_now' = now'

\* Every entry of the ledger l stands for a notification in the history f of
\* an occurrence whose window lies on the date d
RecordedOn(l, f, d) ==
    \A key \in l :
        \E k \in DOMAIN f : AppKey(DF_SCHEDULE[k[1]], k[3]) = key /\ DateOf(WindowStart(k)) = d

\* C15: in app.py the first running tick on a date other than
\* _last_reset_date empties the ledger before any gate and sets
\* _last_reset_date to the date; no other tick clears the ledger; so every
\* entry of the ledger was recorded on the date of _last_reset_date, and an
\* entry of an earlier date never suppresses a notification.
C15_DailyReset ==
    [][ /\ AppBeginStep =>
              IF last_reset_date # DateOf(now')
              THEN notifications_sent_today' = {} /\ last_reset_date' = DateOf(now')
              ELSE UNCHANGED <<notifications_sent_today, last_reset_date>>
        /\ AppGateStep =>
              /\ notifications_sent_today \subseteq notifications_sent_today'
              /\ last_reset_date' = last_reset_date
              /\ last_reset_date = DateOf(tick_now)
              /\ \A i \in 1..Len(filtered_df), T \in EnabledTimes :
                    LET r == filtered_df[i]
                        occ == AppEventDatetime(DF_SCHEDULE[r], tick_now)
                    IN  (/\ occ - T * 60 <= tick_now /\ tick_now < occ - T * 60 + 30
                         /\ ~\E k \in DOMAIN sent :
                               /\ k[1] = r /\ k[3] = T
                               /\ DateOf(WindowStart(k)) = DateOf(tick_now))
                        => <<r, occ, T>> \in Emitted
        /\ variant = "app" =>
              RecordedOn(notifications_sent_today', sent', last_reset_date')
      ]_vars

\* A tick of Tuesday has run after a notification on Monday, whose entry is
\* no longer in the ledger
C15_Witness ==
    /\ variant = "app"
    /\ a_pc = "poll"
    /\ last_reset_date = DateOf(now)
    /\ \E k \in DOMAIN sent :
          /\ DateOf(WindowStart(k)) < last_reset_date
          /\ AppKey(DF_SCHEDULE[k[1]], k[3]) \notin notifications_sent_today

\* C16: while the loop is paused no gate is evaluated: in app.py nothing that
\* happens while monitoring is stopped, a tick that begins then included,
\* emits a notification or changes the ledger or _last_reset_date; in
\* boss_notifier_app.py a tick that finds _is_active false emits nothing and
\* adds no key to the ledger.
C16_NoGateWhilePaused ==
    [][ /\ (variant = "app" /\ ~is_running /\ a_pc = "poll") =>
              /\ Emitted = {}
              /\ UNCHANGED <<notifications_sent_today, last_reset_date>>
              /\ a_pc' = "poll"
        /\ (WorkerTickStep /\ ~w_is_active) =>
              /\ Emitted = {}
              /\ notified_spawn_times' \subseteq notified_spawn_times
      ]_vars

\* A tick of the inactive worker has fallen into the window of a selected
\* boss and a checked threshold and has notified nothing
C16_Witness ==
    /\ variant = "worker"
    /\ w_pc = "status"
    /\ ~w_is_active
    /\ win # <<>>
    /\ \A k \in DOMAIN win : win[k] = "partial"
    /\ \E k \in DOMAIN win :
          /\ k[3] \in minute_checked
          /\ <<k[1], k[2]>> \in WorkerResolved(selected_boss_ids, current_time)
          /\ current_time >= WindowStart(k) + 15
          /\ k \notin DOMAIN sent

\* In app.py a tick has begun between the two halves of stop_monitoring and
\* has returned at once
C16_WitnessApp ==
    /\ variant = "app"
    /\ StopUnderWay
    /\ a_pc = "poll"
    /\ now > tick_now
    /\ tick_now # None

\* In app.py monitoring was stopped and started again, and a later tick has
\* notified a row
C16_WitnessResumed ==
    /\ variant = "app"
    /\ a_pc = "poll"
    /\ is_running
    /\ clicks = 3
    /\ \A b \in BossNames : active_bosses[b]
    /\ UserMinuteKeys \subseteq ActiveSettingKeys(notification_settings)
    /\ \E k \in DOMAIN sent : tick_now = WindowStart(k) /\ now = tick_now

\* The next instant after t of a schedule row, on whatever weekday it falls
NextOccurrenceOfRow(row, t) ==
    LET later == {x \in AppRowInstants(row) : x > t}
    IN  CHOOSE x \in later : \A y \in later : x <= y

\* C17: at the end of every running tick of app.py with an active boss the
\* status names the active boss and the instant of the minimum next
\* occurrence over all schedule rows of all active bosses on any weekday,
\* and it is "No upcoming events found." only when the active bosses have no
\* rows at all.
C17_StatusIsGlobalMinimum ==
    [][ AppGateStep =>
          LET rows == {r \in 1..Len(DF_SCHEDULE) :
                          /\ DF_SCHEDULE[r].Boss \in snap.events
                          /\ AppRowInstants(DF_SCHEDULE[r]) # {}}
              next(r) == NextOccurrenceOfRow(DF_SCHEDULE[r], tick_now)
          IN  IF rows = {}
              THEN status_label'.kind = "No upcoming events found."
              ELSE /\ status_label'.kind = "Next event"
                   /\ \E r \in rows :
                         /\ \A q \in rows : next(r) <= next(q)
                         /\ status_label'.boss = DF_SCHEDULE[r].Boss
                         /\ status_label'.next_time = next(r)
      ]_vars

\* The status half of a tick of the worker
WorkerStatusStep == variant = "worker" /\ w_pc = "status" /\ w_pc' = "notify"

\* C18: every tick of boss_notifier_app.py, active or not, emits exactly one
\* status update; it lists exactly the selected bosses whose next spawn is
\* the minimum next spawn over the selected bosses with a resolvable spawn,
\* and it is the no-boss message if and only if no selected boss has one.
C18_StatusListsClosest ==
    [][ /\ WorkerStatusStep =>
             LET resolved == WorkerResolved(selected_boss_ids', current_time')
                 closest == {r \in resolved : \A q \in resolved : r[2] <= q[2]}
                 entries == live_info_label'.entries
                 NameOf(id) == BOSS_DATA[CHOOSE i \in 1..Len(BOSS_DATA) :
                                            BOSS_DATA[i].id = id].name
             IN  /\ selected_boss_ids' = boss_checked
                 /\ (live_info_label'.kind = "no boss") <=> (resolved = {})
                 /\ resolved # {} => live_info_label'.kind = "closest"
                 /\ Len(entries) = Cardinality(closest)
                 /\ {entries[n] : n \in 1..Len(entries)} =
                       {<<NameOf(r[1]), RemainingStr(r[2] - current_time')>> :
                           r \in closest}
        /\ WorkerTickStep => UNCHANGED live_info_label
      ]_vars

\* The status of an inactive worker's tick lists the two bosses that spawn
\* together
C18_Witness ==
    /\ variant = "worker"
    /\ w_pc = "notify"
    /\ ~w_is_active
    /\ live_info_label.kind = "closest"
    /\ Len(live_info_label.entries) = 2

\* The status of a tick with no resolvable boss selected
C18_WitnessNoBoss ==
    /\ variant = "worker"
    /\ w_pc = "notify"
    /\ 3 \in selected_boss_ids
    /\ live_info_label.kind = "no boss"

\* C19: under any interleaving of UI toggles with a poll tick, the active
\* events and the enabled thresholds the tick uses both equal the values the
\* activation set held at one single instant: the thresholds the tick reads
\* were in force at some instant at which the event selection was the one
\* the tick has read.
C19_ConsistentSnapshot ==
    [][ /\ (WorkerTickStep /\ w_is_active) => minute_checked \in snap.seen
        /\ AppGateStep => ActiveSettingKeys(notification_settings) \in snap.seen
      ]_vars

\* A step of the UI thread: a click, or the second half of stop_monitoring
UIStep == clicks' # clicks \/ is_paused' # is_paused

\* C20: the ledger has a single writer: no operation of the UI thread
\* (toggling a boss or a threshold, start, stop, activate, deactivate,
\* minimize, restore, the saving of settings) adds, removes or clears ledger
\* entries; only the steps of a poll tick change the ledger.
C20_LedgerSingleWriter ==
    [][ /\ UIStep => UNCHANGED <<notified_spawn_times, notifications_sent_today>>
        /\ notified_spawn_times' # notified_spawn_times => WorkerTickStep
        /\ notifications_sent_today' # notifications_sent_today =>
              (AppBeginStep \/ AppGateStep)
      ]_vars

\* Monitoring has been stopped in app.py with a notification on record
C20_Witness ==
    /\ variant = "app"
    /\ status_label.kind = "Notifications stopped."
    /\ ~is_running
    /\ a_pc = "poll"
    /\ notifications_sent_today # {}

\* The worker has been deactivated with a notification on record
C20_WitnessWorker ==
    /\ variant = "worker"
    /\ live_info_label.kind = "deactive"
    /\ ~w_is_active
    /\ notified_spawn_times # {}

RECURSIVE SumOver(_, _)
SumOver(S, f) ==
    IF S = {} THEN 0
    ELSE LET x == CHOOSE y \in S : TRUE
         IN  CountOf(f, x) + SumOver(S \ {x}, f)

\* The number of notifications the step emits
EmissionCount == SumOver(DOMAIN sent', sent') - SumOver(DOMAIN sent, sent)

\* C21: in both variants every emitted notification is paired with exactly
\* one insertion of its key into the ledger in the same tick, before the loop
\* next looks at its stop or pause flag: the keys a tick adds to the ledger
\* are exactly the keys of the notifications it emits, as many insertions as
\* emissions, also when a stop was requested while the tick was under way,
\* and no other step emits.
C21_EmissionsAreRecorded ==
    [][ /\ WorkerTickStep =>
             LET keys == {WorkerKey(k[1], k[2], k[3]) : k \in Emitted}
             IN  /\ notified_spawn_times' \ notified_spawn_times = keys
                 /\ EmissionCount = Cardinality(keys)
        /\ AppGateStep =>
             LET keys == {AppKey(DF_SCHEDULE[k[1]], k[3]) : k \in Emitted}
             IN  /\ notifications_sent_today' \ notifications_sent_today = keys
                 /\ EmissionCount = Cardinality(keys)
        /\ ~(WorkerTickStep \/ AppGateStep) =>
             /\ EmissionCount = 0
             /\ notified_spawn_times' \subseteq notified_spawn_times
             /\ notifications_sent_today' \subseteq notifications_sent_today
      ]_vars

\* The worker was deactivated during the sleep of a tick that has sent a
\* notification; its key is in the ledger
C21_Witness ==
    /\ variant = "worker"
    /\ w_pc = "status"
    /\ ~w_is_active
    /\ live_info_label.kind = "deactive"
    /\ \E k \in DOMAIN sent :
          /\ WindowStart(k) <= current_time
          /\ current_time < WindowStart(k) + WORKER_SLEEP
          /\ WorkerKey(k[1], k[2], k[3]) \in notified_spawn_times

\* Monitoring was stopped in app.py while a tick was under way; the tick has
\* sent a notification and its key is in the ledger
C21_WitnessApp ==
    /\ variant = "app"
    /\ a_pc = "poll"
    /\ ~is_running
    /\ status_label.kind = "Next event"
    /\ tick_now = now
    /\ \E k \in DOMAIN sent :
          /\ WindowStart(k) <= tick_now
          /\ tick_now < WindowStart(k) + APP_WINDOW
          /\ AppKey(DF_SCHEDULE[k[1]], k[3]) \in notifications_sent_today

\* C26: in app.py, for every schedule row of an active boss and every enabled
\* threshold T, a tick of the running monitor at an instant inside the arming
\* window [occ - T, occ - T + 30 s) of an occurrence occ of the row leaves the
\* T-minute notification of that occurrence emitted exactly once, also when
\* the occurrence is shortly after midnight and its window begins on the
\* previous calendar day.
C26_EveryWindowTickNotifies ==
    [][ AppGateStep =>
          \A r \in 1..Len(DF_SCHEDULE), key \in ActiveSettingKeys(notification_settings) :
             \A occ \in AppRowInstants(DF_SCHEDULE[r]) :
                LET T == NOTIFICATION_TIMES[key]
                IN  (/\ DF_SCHEDULE[r].Boss \in snap.events
                     /\ occ - Minutes(T) <= tick_now
                     /\ tick_now < occ - Minutes(T) + APP_WINDOW)
                    => CountOf(sent', <<r, occ, T>>) = 1
      ]_vars

\* A click that changes no selection: Start, Stop, or the tray
ButtonStep ==
    /\ variant = "app"
    /\ clicks' # clicks
    /\ active_bosses' = active_bosses
    /\ notification_settings' = notification_settings

\* C27: in app.py start_monitoring with no boss active or no notification
\* time enabled leaves is_running false and neither starts nor resumes the
\* scheduler thread; start_monitoring while running and stop_monitoring while
\* stopped change no monitoring state (is_running, the pause flag, the
\* ledger), only the status text.
C27_RejectedStartStopChangeNothing ==
    [][ ButtonStep =>
          /\ (/\ ~is_running
              /\ \/ ActiveBossesList(active_bosses) = {}
                 \/ ActiveSettingKeys(notification_settings) = {})
             => /\ ~is_running'
                /\ UNCHANGED <<thread_started, is_paused>>
          /\ status_label'.kind \in {"Application is already running.",
                                     "Application is already stopped.",
                                     "No bosses selected.",
                                     "No notification times selected."}
             => UNCHANGED <<is_running, thread_started, is_paused,
                            notifications_sent_today, last_reset_date,
                            start_btn_enabled, stop_btn_enabled>>
          /\ (is_running /\ status_label'.kind = "Notifications started.") => FALSE
          /\ (~is_running /\ status_label'.kind = "Notifications stopped.") => FALSE
      ]_vars

\* Start was pressed with no boss active and was turned down
C27_Witness ==
    /\ variant = "app"
    /\ status_label.kind = "No bosses selected."
    /\ ~is_running
    /\ ~thread_started
    /\ is_paused

\* Start was pressed with a boss active and no notification time enabled
C27_WitnessNoTime ==
    /\ variant = "app"
    /\ status_label.kind = "No notification times selected."
    /\ ActiveBossesList(active_bosses) # {}
    /\ ~is_running

\* A step that ends a call of start_monitoring or stop_monitoring
StartStopReturns ==
    /\ variant = "app"
    /\ \/ clicks' # clicks /\ ~StopUnderWay'
       \/ StopUnderWay /\ ~StopUnderWay'

\* C28: in app.py, after any sequence of start_monitoring and stop_monitoring
\* calls, is_running is true exactly when the scheduler thread is not paused,
\* the Start button is enabled exactly when is_running is false and the Stop
\* button exactly when is_running is true.
C28_RunningIffNotPaused ==
    [][ /\ StartStopReturns => (is_running' <=> ~is_paused')
        /\ variant = "app" =>
              /\ start_btn_enabled <=> ~is_running
              /\ stop_btn_enabled <=> is_running
              /\ (~StopUnderWay) => (is_running <=> ~is_paused)
              /\ start_btn_enabled' <=> ~is_running'
              /\ stop_btn_enabled' <=> is_running'
              /\ is_running' => thread_started'
      ]_vars

\* Monitoring has been started, stopped and started again
C28_Witness ==
    /\ variant = "app"
    /\ clicks = 3
    /\ status_label.kind = "Notifications started."
    /\ is_running
    /\ ~is_paused
    /\ \A b \in BossNames : active_bosses[b]
    /\ UserMinuteKeys \subseteq ActiveSettingKeys(notification_settings)

\* Monitoring has been started and stopped
C28_WitnessStopped ==
    /\ variant = "app"
    /\ thread_started
    /\ status_label.kind = "Notifications stopped."
    /\ ~is_running
    /\ is_paused

\* The thresholds boss_notifier_app.py offers
WorkerOptions == {notification_minutes_options[i] :
                    i \in 1..Len(notification_minutes_options)}

\* The thresholds app.py offers
AppOptions == {NOTIFICATION_TIMES[key] : key \in DOMAIN NOTIFICATION_TIMES}

\* The remaining times around the arming window of threshold m of width w
AroundWindow(m, w) == (Minutes(m) - w - 5)..(Minutes(m) + 5)

\* C29: for the thresholds each variant offers (app.py: 1, 3, 5, 10, 15, 30,
\* 60 minutes, window 30 s; boss_notifier_app.py: 1, 3, 5, 10, 15, 30
\* minutes, window 65 s) the arming windows of two distinct thresholds of one
\* occurrence never overlap: no remaining time makes two thresholds due, at
\* a tick at most one offered threshold is due for an occurrence, and a tick
\* of boss_notifier_app.py emits at most one notification per selected boss.
C29_WindowsDisjoint ==
    [][ /\ (variant = "worker" /\ current_time = None /\ clicks = 0) =>
              \A m1 \in WorkerOptions, m2 \in WorkerOptions :
                 \A d \in AroundWindow(m1, WORKER_WINDOW) :
                    (WorkerDue(Minutes(m1), d) /\ WorkerDue(Minutes(m2), d)) => m1 = m2
        /\ (variant = "app" /\ ~thread_started /\ clicks = 0 /\ now \in AppStartTimes) =>
              \A m1 \in AppOptions, m2 \in AppOptions :
                 \A d \in AroundWindow(m1, APP_WINDOW) :
                    (AppDue(Minutes(m1), d) /\ AppDue(Minutes(m2), d)) => m1 = m2
        /\ WorkerTickStep =>
              /\ \A r \in WorkerResolved(selected_boss_ids, current_time) :
                    Cardinality({m \in WorkerOptions :
                                    WorkerDue(Minutes(m), r[2] - current_time)}) <= 1
              /\ \A b \in BossIds : Cardinality({k \in Emitted : k[1] = b}) <= 1
              /\ EmissionCount = Cardinality(Emitted)
        /\ AppGateStep =>
              \A i \in 1..Len(filtered_df) :
                 Cardinality({m \in AppOptions :
                                 AppDue(Minutes(m),
                                        AppEventDatetime(DF_SCHEDULE[filtered_df[i]], tick_now)
                                            - tick_now)}) <= 1
      ]_vars

\* A tick of the worker has notified two bosses that spawn together, each once
C29_Witness ==
    /\ variant = "worker"
    /\ w_pc = "status"
    /\ \E k1 \in DOMAIN sent, k2 \in DOMAIN sent :
          /\ k1[1] # k2[1]
          /\ k1[2] = k2[2]
          /\ k1[3] = k2[3]
          /\ current_time = WindowStart(k1)
          /\ sent[k1] = 1
          /\ sent[k2] = 1

\* A step of the code the scheduler thread runs: SchedulerThread.run calls
\* schedule.run_pending, which calls check_for_notifications
SchedulerThreadStep == AppBeginStep \/ AppGateStep

\* C30: in app.py every write to the status label is performed on the GUI
\* main thread: no step the scheduler thread executes, the status updates of
\* check_for_notifications included, writes the label.
C30_LabelWrittenByGuiThread ==
    [][ SchedulerThreadStep => UNCHANGED status_label ]_vars

\* C25: in boss_notifier_app.py, when load_boss_data returns None (the file
\* is missing or is no JSON) the process aborts with no partial run: the main
\* window is never shown, the event loop is never entered, no worker thread
\* is started, and the process ends with a non-zero exit code only.
C25_NoDataAborts ==
    (variant = "worker" /\ data_file \in UnloadableFiles) =>
        /\ window_shown = FALSE
        /\ ~EventLoopRuns
        /\ w_pc = "idle"
        /\ ~ProcessAlive => exit_code > 0

\* A tick of the worker's loop leaves its first part
WorkerStatusLeaves ==
    /\ variant = "worker"
    /\ w_pc = "status"
    /\ ProcessAlive
    /\ w_pc' # w_pc

\* C23: in boss_notifier_app.py one malformed recurrence entry (an unparsable
\* time, a missing day or time) of a selected boss never ends the poll loop
\* and never blocks the other bosses: the tick still resolves every other
\* selected boss, shows their status and goes on to the notification part.
C23_BadRuleIsIsolated ==
    [][ WorkerStatusLeaves =>
          /\ w_pc' = "notify"
          /\ ProcessAlive'
          /\ live_info_label' = LiveInfoText(get_selected_boss_ids, now)
      ]_vars

\* stop_thread is called once more after an earlier call
SecondStopThread ==
    /\ variant = "app"
    /\ stop_event
    /\ main_pc = "events"
    /\ main_pc' = "wait"

\* C22: stopping releases the background task. In boss_notifier_app.py, once
\* quit_app is waiting for the worker the run loop ends and the process
\* ends. In app.py, once stop_thread is waiting the scheduler loop ends and
\* wait() returns; from then on no tick of check_for_notifications begins,
\* whatever is pressed, and a second stop_thread changes nothing.
C22_StoppingReleasesThread ==
    /\ (variant = "worker" /\ main_pc = "wait")
           ~> (w_pc = "dead" /\ ~ProcessAlive)
    /\ (variant = "app" /\ main_pc = "wait")
           ~> (~thread_started /\ main_pc = "events")
    /\ [][ /\ (variant = "app" /\ stop_event) => ~AppBeginStep
           /\ SecondStopThread => UNCHANGED <<appVars, historyVars, stop_event>>
       ]_vars

\* A call of the notification sink fails in the step
SinkFails == variant = "app" /\ failed' # failed

\* C24: in app.py a failure of toast.show_toast for one notification is
\* dropped: the tick finishes the remaining rows (the ledger and the status
\* are those of the whole tick), the scheduler thread and the process keep
\* running, and no later tick notifies what has failed.
C24_SinkFailureIsDropped ==
    [][ /\ SinkFails =>
              /\ thread_started'
              /\ ProcessAlive'
              /\ notifications_sent_today' = AppGateResult.ledger
              /\ status_label' = NextEventStatus(AppGateResult.next_event_info, tick_now)
        /\ AppGateStep => \A k \in failed : CountOf(sent', k) = CountOf(sent, k)
      ]_vars

\* The window is closed or minimized to the tray, or restored from it
TrayStep ==
    /\ variant = "app"
    /\ \/ window_shown' # window_shown
       \/ clicks' # clicks /\ status_label'.kind = "Application window restored."

\* The scheduler thread is running, not paused and not stopped, and the run
\* has time left for a period
PollLoopRuns ==
    /\ variant = "app"
    /\ a_pc = "poll"
    /\ thread_started /\ ~is_paused /\ ~stop_event
    /\ ~StopUnderWay
    /\ now + APP_PERIOD <= AppEndTime

\* C31: in app.py closing the window, minimizing to the tray and restoring
\* from the tray leave is_running, the scheduler's pause and stop flags, the
\* activation set and the ledger unchanged; while the window is hidden a
\* running poll loop can still begin its tick, and the tick notifies and
\* records what it does when the window is shown.
C31_TrayKeepsMonitoring ==
    /\ [][ /\ TrayStep =>
                 UNCHANGED <<is_running, is_paused, stop_event, thread_started,
                             active_bosses, notification_settings,
                             notifications_sent_today>>
           /\ (AppGateStep /\ ~window_shown) =>
                 /\ sent' = CountAll(sent, AppGateResult.out, 1)
                 /\ notifications_sent_today' = AppGateResult.ledger
       ]_vars
    /\ [](PollLoopRuns /\ ~window_shown => ENABLED AppTickBegin)

\* A tick has notified while the window was hidden: the status is that of the
\* end of the tick, written after the window was minimized
C31_Witness ==
    /\ variant = "app"
    /\ ~window_shown
    /\ a_pc = "poll"
    /\ is_running
    /\ tick_now # None
    /\ status_label.kind = "Next event"
    /\ \E k \in DOMAIN sent :
          /\ WindowStart(k) <= tick_now
          /\ tick_now < WindowStart(k) + APP_WINDOW

\* The window has been restored from the tray while monitoring runs
C31_WitnessRestored ==
    /\ variant = "app"
    /\ window_shown
    /\ status_label.kind = "Application window restored."
    /\ is_running /\ ~is_paused
    /\ notifications_sent_today # {}

\* Today's date at the time of the i-th kept row of the tick under way
TodayAt(i) ==
    DateOf(tick_now) * SecondsPerDay + parse_time_str(DF_SCHEDULE[filtered_df[i]].Saat)

\* The occurrence the claim gives the i-th kept row: today's instant when it
\* is no earlier than ten seconds ago, the same time seven days later otherwise
Resolved(i) ==
    IF TodayAt(i) >= tick_now - 10 THEN TodayAt(i) ELSE TodayAt(i) + 7 * SecondsPerDay

\* The kept rows whose occurrence is strictly after the tick
Upcoming == {i \in 1..Len(filtered_df) : Resolved(i) > tick_now}

\* C32: in app.py, for each row of today's weekday of an active boss, the tick
\* resolves the occurrence to today's date at the row's time when that instant
\* is no earlier than now minus 10 seconds and to exactly 7 days later
\* otherwise: every notification of the tick is for the resolved instant of
\* its row; an instant that is not strictly after now triggers none and is
\* never the next event, which is the earliest of the instants after now.
C32_ResolvedToTodayOrNextWeek ==
    [][ AppGateStep =>
          /\ \A k \in Emitted :
                \E i \in Upcoming : filtered_df[i] = k[1] /\ Resolved(i) = k[2]
          /\ IF Upcoming = {}
             THEN status_label'.kind = "No upcoming events found."
             ELSE /\ status_label'.kind = "Next event"
                  /\ \E i \in Upcoming :
                        /\ \A j \in Upcoming : Resolved(i) <= Resolved(j)
                        /\ status_label'.next_time = Resolved(i)
                        /\ status_label'.boss = DF_SCHEDULE[filtered_df[i]].Boss
      ]_vars

\* A tick has found today's only row at most ten seconds in the past: it is
\* kept on today's date and there is no upcoming event
C32_Witness ==
    /\ variant = "app"
    /\ a_pc = "poll"
    /\ tick_now # None
    /\ filtered_df # <<>>
    /\ \E i \in 1..Len(filtered_df) :
          TodayAt(i) < tick_now /\ TodayAt(i) >= tick_now - 10
    /\ status_label.kind = "No upcoming events found."

\* A tick has moved a row that passed more than ten seconds ago to the next
\* week and reports it as the next event
C32_WitnessNextWeek ==
    /\ variant = "app"
    /\ a_pc = "poll"
    /\ tick_now # None
    /\ status_label.kind = "Next event"
    /\ \E i \in 1..Len(filtered_df) :
          /\ TodayAt(i) < tick_now - 10
          /\ status_label.next_time = TodayAt(i) + 7 * SecondsPerDay

\* A tick has notified for a row of today
C32_WitnessNotified ==
    /\ variant = "app"
    /\ a_pc = "poll"
    /\ tick_now # None
    /\ \E i \in 1..Len(filtered_df), k \in DOMAIN sent :
          /\ k[1] = filtered_df[i]
          /\ k[2] = TodayAt(i)
          /\ WindowStart(k) <= tick_now
          /\ tick_now < WindowStart(k) + APP_WINDOW

====
